---- MODULE Spec2Model ----
(***************************************************************************)
(* kubelet-summary-exporter: the scrape / parse / map pipeline of          *)
(* pkg/scraper/scraper.go.  A Scraper pulls the kubelet stats summary,     *)
(* decodes it and flattens it into labelled observations under the         *)
(* Describe / Collect contract of a prometheus collector.                  *)
(***************************************************************************)
EXTENDS Integers, Sequences, FiniteSets, TLC

(***************************************************************************)
(* Bounds of the model.                                                    *)
(***************************************************************************)
\* number of Collect invocations the registry may have in hand
NumProcs == 3
\* pulls are started only while the error counter is below this value
MaxErrors == 2

Procs == 1..NumProcs

(***************************************************************************)
(* prometheus descriptors.                                                 *)
(***************************************************************************)
\* prometheus.BuildFQName: the non-empty parts joined by "_"; an empty name
\* gives the empty string.
BuildFQName(namespace, subsystem, name) ==
  IF name = "" THEN ""
  ELSE IF namespace # "" /\ subsystem # "" THEN namespace \o "_" \o subsystem \o "_" \o name
  ELSE IF namespace # "" THEN namespace \o "_" \o name
  ELSE IF subsystem # "" THEN subsystem \o "_" \o name
  ELSE name

\* prometheus.NewDesc(fqName, help, variableLabels, nil)
NewDesc(fqName, help, variableLabels) ==
  [fqName |-> fqName, help |-> help, variableLabels |-> variableLabels]

\* The *prometheus.Desc fields of the Scraper built by NewScraper.
NewScraper ==
  [
    containerRootFsUsedBytes |->
      NewDesc(BuildFQName("kubelet_summary", "container_fs", "usage_bytes"),
              "Disk used in bytes",
              <<"node", "namespace", "pod", "container">>),
    containerRootFsAvailableBytes |->
      NewDesc(BuildFQName("kubelet_summary", "container_fs", "limit_bytes"),
              "Capacity of container disk",
              <<"node", "namespace", "pod", "container">>),
    containerRootFsInodesFree |->
      NewDesc(BuildFQName("kubelet_summary", "container_fs", "inodes_free"),
              "Number of inodes free in container fs",
              <<"node", "namespace", "pod", "container">>),
    containerRootFsInodes |->
      NewDesc(BuildFQName("kubelet_summary", "container_fs", "inodes"),
              "Number of inodes in container fs",
              <<"node", "namespace", "pod", "container">>),
    containerRootFsInodesUsed |->
      NewDesc(BuildFQName("kubelet_summary", "container_fs", "inodes_used"),
              "Number of inodes used in container fs",
              <<"node", "namespace", "pod", "container">>),
    containerLogsUsedBytes |->
      NewDesc(BuildFQName("kubelet_summary", "container_logs", "usage_bytes"),
              "Logs space used in bytes",
              <<"node", "namespace", "pod", "container">>),
    containerLogsAvailableBytes |->
      NewDesc(BuildFQName("kubelet_summary", "container_logs", "limit_bytes"),
              "Capacity of container log space",
              <<"node", "namespace", "pod", "container">>),
    containerLogsInodesFree |->
      NewDesc(BuildFQName("kubelet_summary", "container_logs", "inodes_free"),
              "Number of inodes free in container log space",
              <<"node", "namespace", "pod", "container">>),
    containerLogsInodes |->
      NewDesc(BuildFQName("kubelet_summary", "container_logs", "inodes"),
              "Number of inodes in container log space",
              <<"node", "namespace", "pod", "container">>),
    containerLogsInodesUsed |->
      NewDesc(BuildFQName("kubelet_summary", "container_logs", "inodes_used"),
              "Number of inodes used in container log space",
              <<"node", "namespace", "pod", "container">>),
    containerCPUUsageNanoCores |->
      NewDesc(BuildFQName("kubelet_summary", "container_cpu", "usage_nano_cores"),
              "CPU usage in nanocores",
              <<"node", "namespace", "pod", "container">>),
    containerCPUUsageCoreNanoSeconds |->
      NewDesc(BuildFQName("kubelet_summary", "container_cpu", "usage_core_nano_seconds"),
              "CPU nanoseconds used",
              <<"node", "namespace", "pod", "container">>),
    containerMemoryAvailableBytes |->
      NewDesc(BuildFQName("kubelet_summary", "container_memory", "available_bytes"),
              "available bytes in container memory",
              <<"node", "namespace", "pod", "container">>),
    containerMemoryUsageBytes |->
      NewDesc(BuildFQName("kubelet_summary", "container_memory", "usage_bytes"),
              "Used bytes in container memory",
              <<"node", "namespace", "pod", "container">>),
    containerMemoryWorkingSetBytes |->
      NewDesc(BuildFQName("kubelet_summary", "container_memory", "working_set_bytes"),
              "working set bytes in container memory",
              <<"node", "namespace", "pod", "container">>),
    containerMemoryRSSBytes |->
      NewDesc(BuildFQName("kubelet_summary", "container_memory", "rss_bytes"),
              "rss bytes in container memory",
              <<"node", "namespace", "pod", "container">>),
    containerMemoryPageFaults |->
      NewDesc(BuildFQName("kubelet_summary", "container_memory", "page_faults"),
              "Page faults in container memory",
              <<"node", "namespace", "pod", "container">>),
    containerMemoryMajorPageFaults |->
      NewDesc(BuildFQName("kubelet_summary", "container_memory", "major_page_faults"),
              "Major page faults in container memory",
              <<"node", "namespace", "pod", "container">>),
    containerSwapAvailableBytes |->
      NewDesc(BuildFQName("kubelet_summary", "container_swap", "available_bytes"),
              "Available bytes in container's swap storage",
              <<"node", "namespace", "pod", "container">>),
    containerSwapUsageBytes |->
      NewDesc(BuildFQName("kubelet_summary", "container_swap", "usage_bytes"),
              "Used bytes in container's swap storage",
              <<"node", "namespace", "pod", "container">>),
    containerAcceleratorMemoryTotal |->
      NewDesc(BuildFQName("kubelet_summary", "container_accelerator", "memory_total"),
              "Total memory in container's accelerator",
              <<"node", "namespace", "pod", "container", "id", "model", "make">>),
    containerAcceleratorMemoryUsed |->
      NewDesc(BuildFQName("kubelet_summary", "container_accelerator", "memory_used"),
              "Memory used in container's accelerator",
              <<"node", "namespace", "pod", "container", "id", "model", "make">>),
    containerAcceleratorDutyCycle |->
      NewDesc(BuildFQName("kubelet_summary", "container_accelerator", "duty_cycle"),
              "Percentage of time over which accelerator was allocated",
              <<"node", "namespace", "pod", "container", "id", "model", "make">>),
    podCPUUsageNanoCores |->
      NewDesc(BuildFQName("kubelet_summary", "pod_cpu", "usage_nano_cores"),
              "CPU usage in nanocores",
              <<"node", "namespace", "pod">>),
    podCPUUsageCoreNanoSeconds |->
      NewDesc(BuildFQName("kubelet_summary", "pod_cpu", "usage_core_nano_seconds"),
              "CPU nanoseconds used",
              <<"node", "namespace", "pod">>),
    podMemoryAvailableBytes |->
      NewDesc(BuildFQName("kubelet_summary", "pod_memory", "available_bytes"),
              "available bytes in pod memory",
              <<"node", "namespace", "pod">>),
    podMemoryUsageBytes |->
      NewDesc(BuildFQName("kubelet_summary", "pod_memory", "usage_bytes"),
              "Used bytes in pod memory",
              <<"node", "namespace", "pod">>),
    podMemoryWorkingSetBytes |->
      NewDesc(BuildFQName("kubelet_summary", "pod_memory", "working_set_bytes"),
              "working set bytes in pod memory",
              <<"node", "namespace", "pod">>),
    podMemoryRSSBytes |->
      NewDesc(BuildFQName("kubelet_summary", "pod_memory", "rss_bytes"),
              "rss bytes in pod memory",
              <<"node", "namespace", "pod">>),
    podMemoryPageFaults |->
      NewDesc(BuildFQName("kubelet_summary", "pod_memory", "page_faults"),
              "Page faults in pod memory",
              <<"node", "namespace", "pod">>),
    podMemoryMajorPageFaults |->
      NewDesc(BuildFQName("kubelet_summary", "pod_memory", "major_page_faults"),
              "Major page faults in pod memory",
              <<"node", "namespace", "pod">>),
    podSwapAvailableBytes |->
      NewDesc(BuildFQName("kubelet_summary", "pod_swap", "available_bytes"),
              "Available bytes in pod's swap storage",
              <<"node", "namespace", "pod">>),
    podSwapUsageBytes |->
      NewDesc(BuildFQName("kubelet_summary", "pod_swap", "usage_bytes"),
              "Used bytes in pod's swap storage",
              <<"node", "namespace", "pod">>),
    podEphemeralStorageUsedBytes |->
      NewDesc(BuildFQName("kubelet_summary", "pod_ephemeral_storage", "usage_bytes"),
              "Amount of bytes used in pod's ephemeral storage",
              <<"node", "namespace", "pod">>),
    podEphemeralStorageAvailableBytes |->
      NewDesc(BuildFQName("kubelet_summary", "pod_ephemeral_storage", "limit_bytes"),
              "Capacity of pod's ephemeral storage in bytes",
              <<"node", "namespace", "pod">>),
    podEphemeralStorageInodesFree |->
      NewDesc(BuildFQName("kubelet_summary", "pod_ephemeral_storage", "inodes_free"),
              "Number of inodes free in pod's ephemeral storage",
              <<"node", "namespace", "pod">>),
    podEphemeralStorageInodes |->
      NewDesc(BuildFQName("kubelet_summary", "pod_ephemeral_storage", "inodes"),
              "Number of inodes in pod's ephemeral storage",
              <<"node", "namespace", "pod">>),
    podEphemeralStorageInodesUsed |->
      NewDesc(BuildFQName("kubelet_summary", "pod_ephemeral_storage", "inodes_used"),
              "Number of inodes used in pod's ephemeral storage",
              <<"node", "namespace", "pod">>),
    podVolumeUsedBytes |->
      NewDesc(BuildFQName("kubelet_summary", "pod_volume", "usage_bytes"),
              "Pod volume used in bytes",
              <<"node", "namespace", "pod", "volume_name">>),
    podVolumeAvailableBytes |->
      NewDesc(BuildFQName("kubelet_summary", "pod_volume", "limit_bytes"),
              "Capacity of pod volume in bytes",
              <<"node", "namespace", "pod", "volume_name">>),
    podVolumeInodesFree |->
      NewDesc(BuildFQName("kubelet_summary", "pod_volume", "inodes_free"),
              "Number of inodes free in pod volume",
              <<"node", "namespace", "pod", "volume_name">>),
    podVolumeInodes |->
      NewDesc(BuildFQName("kubelet_summary", "pod_volume", "inodes"),
              "Number of inodes in pod volume",
              <<"node", "namespace", "pod", "volume_name">>),
    podVolumeInodesUsed |->
      NewDesc(BuildFQName("kubelet_summary", "pod_volume", "inodes_used"),
              "Number of inodes used in pod volume",
              <<"node", "namespace", "pod", "volume_name">>),
    podVolumeHealthStatus |->
      NewDesc(BuildFQName("kubelet_summary", "pod_volume", "health_status"),
              "Health status of pod volume",
              <<"node", "namespace", "pod", "volume_name">>),
    podInterfaceRxBytes |->
      NewDesc(BuildFQName("kubelet_summary", "pod_interface", "rx_bytes"),
              "Cumulative count of receive bytes",
              <<"node", "namespace", "pod", "name">>),
    podInterfaceRxErrors |->
      NewDesc(BuildFQName("kubelet_summary", "pod_interface", "rx_errors"),
              "Cumulative count of receive errors",
              <<"node", "namespace", "pod", "name">>),
    podInterfaceTxBytes |->
      NewDesc(BuildFQName("kubelet_summary", "pod_interface", "tx_bytes"),
              "Cumulative count of transmit bytes",
              <<"node", "namespace", "pod", "name">>),
    podInterfaceTxErrors |->
      NewDesc(BuildFQName("kubelet_summary", "pod_interface", "tx_errors"),
              "Cumulative count of transmit errors",
              <<"node", "namespace", "pod", "name">>),
    podProcessCount |->
      NewDesc(BuildFQName("kubelet_summary", "pod", "process_count"),
              "Count of process in pod",
              <<"node", "namespace", "pod">>),
    nodeFsUsedBytes |->
      NewDesc(BuildFQName("kubelet_summary", "node_fs", "usage_bytes"),
              "Disk used in bytes",
              <<"node">>),
    nodeFsAvailableBytes |->
      NewDesc(BuildFQName("kubelet_summary", "node_fs", "limit_bytes"),
              "Capacity of container disk",
              <<"node">>),
    nodeFsInodesFree |->
      NewDesc(BuildFQName("kubelet_summary", "node_fs", "inodes_free"),
              "Number of inodes free in node fs",
              <<"node">>),
    nodeFsInodes |->
      NewDesc(BuildFQName("kubelet_summary", "node_fs", "inodes"),
              "Number of inodes in node fs",
              <<"node">>),
    nodeFsInodesUsed |->
      NewDesc(BuildFQName("kubelet_summary", "node_fs", "inodes_used"),
              "Number of inodes used in node fs",
              <<"node">>),
    nodeRuntimeImageFsUsedBytes |->
      NewDesc(BuildFQName("kubelet_summary", "node_runtime_image_fs", "usage_bytes"),
              "Usage of node runtime image fs in bytes",
              <<"node">>),
    nodeRuntimeImageFsAvailableBytes |->
      NewDesc(BuildFQName("kubelet_summary", "node_runtime_image_fs", "limit_bytes"),
              "Capacity of node runtime image fs in bytes",
              <<"node">>),
    nodeRuntimeImageFsInodesFree |->
      NewDesc(BuildFQName("kubelet_summary", "node_runtime_image_fs", "inodes_free"),
              "Inodes free in node's runtime image fs",
              <<"node">>),
    nodeRuntimeImageFsInodes |->
      NewDesc(BuildFQName("kubelet_summary", "node_runtime_image_fs", "inodes"),
              "Inodes in node's runtime image fs",
              <<"node">>),
    nodeRuntimeImageFsInodesUsed |->
      NewDesc(BuildFQName("kubelet_summary", "node_runtime_image_fs", "inodes_used"),
              "Inodes used in node's runtime image fs",
              <<"node">>),
    nodeRuntimeContainerFsUsedBytes |->
      NewDesc(BuildFQName("kubelet_summary", "node_runtime_container_fs", "usage_bytes"),
              "Usage of node runtime container's writeable layer in bytes",
              <<"node">>),
    nodeRuntimeContainerFsAvailableBytes |->
      NewDesc(BuildFQName("kubelet_summary", "node_runtime_container_fs", "limit_bytes"),
              "Capacity of node runtime container's writeable layer in bytes",
              <<"node">>),
    nodeRuntimeContainerFsInodesFree |->
      NewDesc(BuildFQName("kubelet_summary", "node_runtime_container_fs", "inodes_free"),
              "Count of free Inodes in node runtime container fs",
              <<"node">>),
    nodeRuntimeContainerFsInodes |->
      NewDesc(BuildFQName("kubelet_summary", "node_runtime_container_fs", "inodes"),
              "Total inodes in node's runtime container fs",
              <<"node">>),
    nodeRuntimeContainerFsInodesUsed |->
      NewDesc(BuildFQName("kubelet_summary", "node_runtime_container_fs", "inodes_used"),
              "Count of inodes being used",
              <<"node">>),
    nodeCPUUsageNanoCores |->
      NewDesc(BuildFQName("kubelet_summary", "node_cpu", "usage_nano_cores"),
              "CPU usage in nanocores",
              <<"node">>),
    nodeCPUUsageCoreNanoSeconds |->
      NewDesc(BuildFQName("kubelet_summary", "node_cpu", "usage_core_nano_seconds"),
              "CPU nanoseconds used",
              <<"node">>),
    nodeMemoryAvailableBytes |->
      NewDesc(BuildFQName("kubelet_summary", "node_memory", "available_bytes"),
              "available bytes in node memory",
              <<"node">>),
    nodeMemoryUsageBytes |->
      NewDesc(BuildFQName("kubelet_summary", "node_memory", "usage_bytes"),
              "Used bytes in node memory",
              <<"node">>),
    nodeMemoryWorkingSetBytes |->
      NewDesc(BuildFQName("kubelet_summary", "node_memory", "working_set_bytes"),
              "working set bytes in node memory",
              <<"node">>),
    nodeMemoryRSSBytes |->
      NewDesc(BuildFQName("kubelet_summary", "node_memory", "rss_bytes"),
              "rss bytes in node memory",
              <<"node">>),
    nodeMemoryPageFaults |->
      NewDesc(BuildFQName("kubelet_summary", "node_memory", "page_faults"),
              "Page faults in node memory",
              <<"node">>),
    nodeMemoryMajorPageFaults |->
      NewDesc(BuildFQName("kubelet_summary", "node_memory", "major_page_faults"),
              "Major page faults in node memory",
              <<"node">>),
    nodeSwapAvailableBytes |->
      NewDesc(BuildFQName("kubelet_summary", "node_swap", "available_bytes"),
              "Available bytes in node's swap storage",
              <<"node">>),
    nodeSwapUsageBytes |->
      NewDesc(BuildFQName("kubelet_summary", "node_swap", "usage_bytes"),
              "Used bytes in node's swap storage",
              <<"node">>),
    nodeRLimitMaxPID |->
      NewDesc(BuildFQName("kubelet_summary", "node_rlimit", "max_pid"),
              "Maximum PID",
              <<"node">>),
    nodeRLimitNumOfRunningProcess |->
      NewDesc(BuildFQName("kubelet_summary", "node_rlimit", "num_of_running_process"),
              "Number of running process in node",
              <<"node">>),
    nodeInterfaceRxBytes |->
      NewDesc(BuildFQName("kubelet_summary", "node_interface", "rx_bytes"),
              "Cumulative count of receive bytes",
              <<"node", "name">>),
    nodeInterfaceRxErrors |->
      NewDesc(BuildFQName("kubelet_summary", "node_interface", "rx_errors"),
              "Cumulative count of receive errors",
              <<"node", "name">>),
    nodeInterfaceTxBytes |->
      NewDesc(BuildFQName("kubelet_summary", "node_interface", "tx_bytes"),
              "Cumulative count of transmit bytes",
              <<"node", "name">>),
    nodeInterfaceTxErrors |->
      NewDesc(BuildFQName("kubelet_summary", "node_interface", "tx_errors"),
              "Cumulative count of transmit errors",
              <<"node", "name">>),
    nodeSystemContainerRootFsUsedBytes |->
      NewDesc(BuildFQName("kubelet_summary", "node_system_container_fs", "usage_bytes"),
              "Disk used in bytes",
              <<"node", "container">>),
    nodeSystemContainerRootFsAvailableBytes |->
      NewDesc(BuildFQName("kubelet_summary", "node_system_container_fs", "limit_bytes"),
              "Capacity of nodeSystemContainer disk",
              <<"node", "container">>),
    nodeSystemContainerRootFsInodesFree |->
      NewDesc(BuildFQName("kubelet_summary", "node_system_container_fs", "inodes_free"),
              "Capacity of nodeSystemContainer disk",
              <<"node", "container">>),
    nodeSystemContainerRootFsInodes |->
      NewDesc(BuildFQName("kubelet_summary", "node_system_container_fs", "inodes"),
              "Capacity of nodeSystemContainer disk",
              <<"node", "container">>),
    nodeSystemContainerRootFsInodesUsed |->
      NewDesc(BuildFQName("kubelet_summary", "node_system_container_fs", "inodes_used"),
              "Capacity of nodeSystemContainer disk",
              <<"node", "container">>),
    nodeSystemContainerLogsUsedBytes |->
      NewDesc(BuildFQName("kubelet_summary", "node_system_container_logs", "usage_bytes"),
              "Disk used in bytes",
              <<"node", "container">>),
    nodeSystemContainerLogsAvailableBytes |->
      NewDesc(BuildFQName("kubelet_summary", "node_system_container_logs", "limit_bytes"),
              "Capacity of nodeSystemContainer disk",
              <<"node", "container">>),
    nodeSystemContainerLogsInodesFree |->
      NewDesc(BuildFQName("kubelet_summary", "node_system_container_logs", "inodes_free"),
              "Capacity of nodeSystemContainer disk",
              <<"node", "container">>),
    nodeSystemContainerLogsInodes |->
      NewDesc(BuildFQName("kubelet_summary", "node_system_container_logs", "inodes"),
              "Capacity of nodeSystemContainer disk",
              <<"node", "container">>),
    nodeSystemContainerLogsInodesUsed |->
      NewDesc(BuildFQName("kubelet_summary", "node_system_container_logs", "inodes_used"),
              "Capacity of nodeSystemContainer disk",
              <<"node", "container">>),
    nodeSystemContainerCPUUsageNanoCores |->
      NewDesc(BuildFQName("kubelet_summary", "node_system_container_cpu", "usage_nano_cores"),
              "CPU usage in nanocores",
              <<"node", "container">>),
    nodeSystemContainerCPUUsageCoreNanoSeconds |->
      NewDesc(BuildFQName("kubelet_summary", "node_system_container_cpu", "usage_core_nano_seconds"),
              "CPU usage in core nanoseconds",
              <<"node", "container">>),
    nodeSystemContainerMemoryAvailableBytes |->
      NewDesc(BuildFQName("kubelet_summary", "node_system_container_memory", "available_bytes"),
              "available bytes in nodeSystemContainer memory",
              <<"node", "container">>),
    nodeSystemContainerMemoryUsageBytes |->
      NewDesc(BuildFQName("kubelet_summary", "node_system_container_memory", "usage_bytes"),
              "Used bytes in nodeSystemContainer memory",
              <<"node", "container">>),
    nodeSystemContainerMemoryWorkingSetBytes |->
      NewDesc(BuildFQName("kubelet_summary", "node_system_container_memory", "working_set_bytes"),
              "working set bytes in nodeSystemContainer memory",
              <<"node", "container">>),
    nodeSystemContainerMemoryRSSBytes |->
      NewDesc(BuildFQName("kubelet_summary", "node_system_container_memory", "rss_bytes"),
              "rss bytes in nodeSystemContainer memory",
              <<"node", "container">>),
    nodeSystemContainerMemoryPageFaults |->
      NewDesc(BuildFQName("kubelet_summary", "node_system_container_memory", "page_faults"),
              "Page faults in nodeSystemContainer memory",
              <<"node", "container">>),
    nodeSystemContainerMemoryMajorPageFaults |->
      NewDesc(BuildFQName("kubelet_summary", "node_system_container_memory", "major_page_faults"),
              "Major page faults in nodeSystemContainer memory",
              <<"node", "container">>),
    nodeSystemContainerSwapAvailableBytes |->
      NewDesc(BuildFQName("kubelet_summary", "node_system_container_swap", "available_bytes"),
              "Available bytes in nodeSystemContainer's swap storage",
              <<"node", "container">>),
    nodeSystemContainerSwapUsageBytes |->
      NewDesc(BuildFQName("kubelet_summary", "node_system_container_swap", "usage_bytes"),
              "Used bytes in nodeSystemContainer's swap storage",
              <<"node", "container">>),
    nodeSystemContainerAcceleratorMemoryTotal |->
      NewDesc(BuildFQName("kubelet_summary", "node_system_container_accelerator", "memory_total"),
              "Total memory in nodeSystemContainer's accelerator",
              <<"node", "container", "id", "model", "make">>),
    nodeSystemContainerAcceleratorMemoryUsed |->
      NewDesc(BuildFQName("kubelet_summary", "node_system_container_accelerator", "memory_used"),
              "Memory used in nodeSystemContainer's accelerator",
              <<"node", "container", "id", "model", "make">>),
    nodeSystemContainerAcceleratorDutyCycle |->
      NewDesc(BuildFQName("kubelet_summary", "node_system_container_accelerator", "duty_cycle"),
              "Percentage of time over which accelerator was allocated",
              <<"node", "container", "id", "model", "make">>),
    errors |->
      NewDesc(BuildFQName("kubelet_summary_exporter", "", "errors"),
              "Errors scraping kubelet stats summary",
              <<"type">>)
  ]

\* Scraper.Describe: the descriptors sent on the channel, in order.
DescribeSends(s) ==
  <<
       s.errors,
       s.nodeFsUsedBytes,
       s.nodeFsAvailableBytes,
       s.nodeFsInodesFree,
       s.nodeFsInodes,
       s.nodeFsInodesUsed,
       s.nodeRuntimeImageFsUsedBytes,
       s.nodeRuntimeImageFsAvailableBytes,
       s.nodeRuntimeImageFsInodesFree,
       s.nodeRuntimeImageFsInodes,
       s.nodeRuntimeImageFsInodesUsed,
       s.nodeRuntimeContainerFsUsedBytes,
       s.nodeRuntimeContainerFsAvailableBytes,
       s.nodeRuntimeContainerFsInodesFree,
       s.nodeRuntimeContainerFsInodes,
       s.nodeRuntimeContainerFsInodesUsed,
       s.nodeCPUUsageNanoCores,
       s.nodeCPUUsageCoreNanoSeconds,
       s.nodeMemoryAvailableBytes,
       s.nodeMemoryUsageBytes,
       s.nodeMemoryWorkingSetBytes,
       s.nodeMemoryRSSBytes,
       s.nodeMemoryPageFaults,
       s.nodeMemoryMajorPageFaults,
       s.nodeSwapAvailableBytes,
       s.nodeSwapUsageBytes,
       s.nodeRLimitMaxPID,
       s.nodeRLimitNumOfRunningProcess,
       s.nodeInterfaceRxBytes,
       s.nodeInterfaceRxErrors,
       s.nodeInterfaceTxBytes,
       s.nodeInterfaceTxErrors,
       s.nodeSystemContainerRootFsUsedBytes,
       s.nodeSystemContainerRootFsAvailableBytes,
       s.nodeSystemContainerRootFsInodesFree,
       s.nodeSystemContainerRootFsInodes,
       s.nodeSystemContainerRootFsInodesUsed,
       s.nodeSystemContainerLogsUsedBytes,
       s.nodeSystemContainerLogsAvailableBytes,
       s.nodeSystemContainerLogsInodesFree,
       s.nodeSystemContainerLogsInodes,
       s.nodeSystemContainerLogsInodesUsed,
       s.nodeSystemContainerCPUUsageNanoCores,
       s.nodeSystemContainerCPUUsageCoreNanoSeconds,
       s.nodeSystemContainerMemoryAvailableBytes,
       s.nodeSystemContainerMemoryUsageBytes,
       s.nodeSystemContainerMemoryWorkingSetBytes,
       s.nodeSystemContainerMemoryRSSBytes,
       s.nodeSystemContainerMemoryPageFaults,
       s.nodeSystemContainerMemoryMajorPageFaults,
       s.nodeSystemContainerSwapAvailableBytes,
       s.nodeSystemContainerSwapUsageBytes,
       s.nodeSystemContainerAcceleratorMemoryTotal,
       s.nodeSystemContainerAcceleratorMemoryUsed,
       s.nodeSystemContainerAcceleratorDutyCycle,
       s.podCPUUsageNanoCores,
       s.podCPUUsageCoreNanoSeconds,
       s.podMemoryAvailableBytes,
       s.podMemoryUsageBytes,
       s.podMemoryWorkingSetBytes,
       s.podMemoryRSSBytes,
       s.podMemoryPageFaults,
       s.podMemoryMajorPageFaults,
       s.podSwapAvailableBytes,
       s.podSwapUsageBytes,
       s.podInterfaceRxBytes,
       s.podInterfaceRxErrors,
       s.podInterfaceTxBytes,
       s.podInterfaceTxErrors,
       s.podEphemeralStorageUsedBytes,
       s.podEphemeralStorageAvailableBytes,
       s.podEphemeralStorageInodesFree,
       s.podEphemeralStorageInodes,
       s.podEphemeralStorageInodesUsed,
       s.podVolumeUsedBytes,
       s.podVolumeAvailableBytes,
       s.podVolumeInodesFree,
       s.podVolumeInodes,
       s.podVolumeInodesUsed,
       s.podVolumeHealthStatus,
       s.podProcessCount,
       s.containerRootFsUsedBytes,
       s.containerRootFsAvailableBytes,
       s.containerRootFsInodesFree,
       s.containerRootFsInodes,
       s.containerRootFsInodesUsed,
       s.containerLogsUsedBytes,
       s.containerLogsAvailableBytes,
       s.containerLogsInodesFree,
       s.containerLogsInodes,
       s.containerLogsInodesUsed,
       s.containerCPUUsageNanoCores,
       s.containerCPUUsageCoreNanoSeconds,
       s.containerMemoryAvailableBytes,
       s.containerMemoryUsageBytes,
       s.containerMemoryWorkingSetBytes,
       s.containerMemoryRSSBytes,
       s.containerMemoryPageFaults,
       s.containerMemoryMajorPageFaults,
       s.containerSwapAvailableBytes,
       s.containerSwapUsageBytes,
       s.containerAcceleratorMemoryTotal,
       s.containerAcceleratorMemoryUsed,
       s.containerAcceleratorDutyCycle
  >>

(***************************************************************************)
(* The response body and its decoding.  A JSON object is a function from   *)
(* its keys to its values, a JSON array a sequence.  An optional field of  *)
(* the decoded Summary (a Go pointer) is <<>> when nil and <<v>> when set. *)
(***************************************************************************)
\* json.Unmarshal into a pointer field (*uint64, *int64, *struct): nil unless
\* the key is given
OptField(o, k) == IF k \in DOMAIN o THEN <<o[k]>> ELSE <<>>

\* json.Unmarshal into a string field: "" unless the key is given
StrField(o, k) == IF k \in DOMAIN o THEN o[k] ELSE ""

\* json.Unmarshal into a uint64 field: 0 unless the key is given
NumField(o, k) == IF k \in DOMAIN o THEN o[k] ELSE 0

\* json.Unmarshal into a bool field: false unless the key is given
BoolField(o, k) == IF k \in DOMAIN o THEN o[k] ELSE FALSE

\* json.Unmarshal into a slice field: the elements of the array, none unless
\* the key is given
SliceField(o, k) == IF k \in DOMAIN o THEN o[k] ELSE <<>>

\* FsStats with plain numbers for fields: a leaf that is not given reads 0
decodeFsStatsDefaultingToZero(o) ==
  [UsedBytes     |-> <<NumField(o, "usedBytes")>>,
   CapacityBytes |-> <<NumField(o, "capacityBytes")>>,
   Inodes        |-> <<NumField(o, "inodes")>>,
   InodesFree    |-> <<NumField(o, "inodesFree")>>,
   InodesUsed    |-> <<NumField(o, "inodesUsed")>>]

\* statsapi.FsStats
decodeFsStats(o) ==
  [UsedBytes     |-> OptField(o, "usedBytes"),
   CapacityBytes |-> OptField(o, "capacityBytes"),
   Inodes        |-> OptField(o, "inodes"),
   InodesFree    |-> OptField(o, "inodesFree"),
   InodesUsed    |-> OptField(o, "inodesUsed")]

\* statsapi.CPUStats
decodeCPUStats(o) ==
  [UsageNanoCores       |-> OptField(o, "usageNanoCores"),
   UsageCoreNanoSeconds |-> OptField(o, "usageCoreNanoSeconds")]

\* statsapi.MemoryStats
decodeMemoryStats(o) ==
  [AvailableBytes  |-> OptField(o, "availableBytes"),
   UsageBytes      |-> OptField(o, "usageBytes"),
   WorkingSetBytes |-> OptField(o, "workingSetBytes"),
   RSSBytes        |-> OptField(o, "rssBytes"),
   PageFaults      |-> OptField(o, "pageFaults"),
   MajorPageFaults |-> OptField(o, "majorPageFaults")]

\* statsapi.SwapStats
decodeSwapStats(o) ==
  [SwapAvailableBytes |-> OptField(o, "swapAvailableBytes"),
   SwapUsageBytes     |-> OptField(o, "swapUsageBytes")]

\* statsapi.RlimitStats
decodeRlimitStats(o) ==
  [MaxPID                |-> OptField(o, "maxpid"),
   NumOfRunningProcesses |-> OptField(o, "curproc")]

\* statsapi.InterfaceStats
decodeInterfaceStats(o) ==
  [Name     |-> StrField(o, "name"),
   RxBytes  |-> OptField(o, "rxBytes"),
   RxErrors |-> OptField(o, "rxErrors"),
   TxBytes  |-> OptField(o, "txBytes"),
   TxErrors |-> OptField(o, "txErrors")]

\* statsapi.NetworkStats
decodeNetworkStats(o) ==
  [Interfaces |-> [i \in DOMAIN SliceField(o, "interfaces") |-> decodeInterfaceStats(SliceField(o, "interfaces")[i])]]

\* statsapi.AcceleratorStats: no field is optional
decodeAcceleratorStats(o) ==
  [Make        |-> StrField(o, "make"),
   Model       |-> StrField(o, "model"),
   ID          |-> StrField(o, "id"),
   MemoryTotal |-> NumField(o, "memoryTotal"),
   MemoryUsed  |-> NumField(o, "memoryUsed"),
   DutyCycle   |-> NumField(o, "dutyCycle")]

\* statsapi.ContainerStats
decodeContainerStats(o) ==
  [Name         |-> StrField(o, "name"),
   CPU          |-> [i \in DOMAIN OptField(o, "cpu") |-> decodeCPUStats(OptField(o, "cpu")[i])],
   Memory       |-> [i \in DOMAIN OptField(o, "memory") |-> decodeMemoryStats(OptField(o, "memory")[i])],
   Accelerators |-> [i \in DOMAIN SliceField(o, "accelerators") |-> decodeAcceleratorStats(SliceField(o, "accelerators")[i])],
   Rootfs       |-> [i \in DOMAIN OptField(o, "rootfs") |-> decodeFsStats(OptField(o, "rootfs")[i])],
   Logs         |-> [i \in DOMAIN OptField(o, "logs") |-> decodeFsStats(OptField(o, "logs")[i])],
   Swap         |-> [i \in DOMAIN OptField(o, "swap") |-> decodeSwapStats(OptField(o, "swap")[i])]]

\* statsapi.VolumeHealthStats
decodeVolumeHealthStats(o) ==
  [Abnormal |-> BoolField(o, "abnormal")]

\* statsapi.VolumeStats: FsStats is embedded, its keys are the volume's own
decodeVolumeStats(o) ==
  [FsStats           |-> decodeFsStats(o),
   Name              |-> StrField(o, "name"),
   VolumeHealthStats |-> [i \in DOMAIN OptField(o, "volumeHealthStats") |-> decodeVolumeHealthStats(OptField(o, "volumeHealthStats")[i])]]

\* statsapi.ProcessStats
decodeProcessStats(o) ==
  [ProcessCount |-> OptField(o, "process_count")]

\* statsapi.PodReference
decodePodReference(o) ==
  [Name      |-> StrField(o, "name"),
   Namespace |-> StrField(o, "namespace")]

\* statsapi.PodStats
decodePodStats(o) ==
  [PodRef           |-> IF "podRef" \in DOMAIN o THEN decodePodReference(o["podRef"])
                        ELSE decodePodReference(<<>>),
   Containers       |-> [i \in DOMAIN SliceField(o, "containers") |-> decodeContainerStats(SliceField(o, "containers")[i])],
   CPU              |-> [i \in DOMAIN OptField(o, "cpu") |-> decodeCPUStats(OptField(o, "cpu")[i])],
   Memory           |-> [i \in DOMAIN OptField(o, "memory") |-> decodeMemoryStats(OptField(o, "memory")[i])],
   Network          |-> [i \in DOMAIN OptField(o, "network") |-> decodeNetworkStats(OptField(o, "network")[i])],
   VolumeStats      |-> [i \in DOMAIN SliceField(o, "volume") |-> decodeVolumeStats(SliceField(o, "volume")[i])],
   EphemeralStorage |-> [i \in DOMAIN OptField(o, "ephemeral-storage") |-> decodeFsStats(OptField(o, "ephemeral-storage")[i])],
   ProcessStats     |-> [i \in DOMAIN OptField(o, "process_stats") |-> decodeProcessStats(OptField(o, "process_stats")[i])],
   Swap             |-> [i \in DOMAIN OptField(o, "swap") |-> decodeSwapStats(OptField(o, "swap")[i])]]

\* statsapi.RuntimeStats
decodeRuntimeStats(o) ==
  [ImageFs     |-> [i \in DOMAIN OptField(o, "imageFs") |-> decodeFsStats(OptField(o, "imageFs")[i])],
   ContainerFs |-> [i \in DOMAIN OptField(o, "containerFs") |-> decodeFsStats(OptField(o, "containerFs")[i])]]

\* statsapi.NodeStats
decodeNodeStats(o) ==
  [NodeName         |-> StrField(o, "nodeName"),
   SystemContainers |-> [i \in DOMAIN SliceField(o, "systemContainers") |-> decodeContainerStats(SliceField(o, "systemContainers")[i])],
   CPU              |-> [i \in DOMAIN OptField(o, "cpu") |-> decodeCPUStats(OptField(o, "cpu")[i])],
   Memory           |-> [i \in DOMAIN OptField(o, "memory") |-> decodeMemoryStats(OptField(o, "memory")[i])],
   Network          |-> [i \in DOMAIN OptField(o, "network") |-> decodeNetworkStats(OptField(o, "network")[i])],
   Fs               |-> [i \in DOMAIN OptField(o, "fs") |-> decodeFsStats(OptField(o, "fs")[i])],
   Runtime          |-> [i \in DOMAIN OptField(o, "runtime") |-> decodeRuntimeStats(OptField(o, "runtime")[i])],
   Rlimit           |-> [i \in DOMAIN OptField(o, "rlimit") |-> decodeRlimitStats(OptField(o, "rlimit")[i])],
   Swap             |-> [i \in DOMAIN OptField(o, "swap") |-> decodeSwapStats(OptField(o, "swap")[i])]]

\* statsapi.Summary
decodeSummary(o) ==
  [Node |-> IF "node" \in DOMAIN o THEN decodeNodeStats(o["node"])
            ELSE decodeNodeStats(<<>>),
   Pods |-> [i \in DOMAIN SliceField(o, "pods") |-> decodePodStats(SliceField(o, "pods")[i])]]

\* parse dropping the error of json.Unmarshal: the zero Summary is returned
parseIgnoringError(body) ==
  [err |-> FALSE,
   summary |-> <<decodeSummary(IF body.json THEN body.doc ELSE <<>>)>>]

\* Scraper.parse: json.Unmarshal fails on a body that is not a JSON document
\* of the shape of statsapi.Summary (body.json is FALSE) and the summary is
\* then nil; otherwise the decoded Summary is returned.
parse(body) ==
  IF body.json
  THEN [err |-> FALSE, summary |-> <<decodeSummary(body.doc)>>]
  ELSE [err |-> TRUE, summary |-> <<>>]

(***************************************************************************)
(* Collect: the observations sent for a decoded summary.                   *)
(***************************************************************************)
\* float64(*value): exact for every value below 2^53, which covers the
\* values of the model
Float64(v) == v

\* prometheus.MustNewConstMetric(desc, valueType, value, labelValues...)
MustNewConstMetric(desc, valueType, value, labelValues) ==
  [desc |-> desc, valueType |-> valueType, value |-> value,
   labelValues |-> labelValues]

\* MustNewConstMetric panics when the number of label values is not the
\* number of variable labels of the descriptor
InconsistentCardinality(m) == Len(m.labelValues) # Len(m.desc.variableLabels)

\* Scraper.pushMetrics: one gauge when value is not nil, nothing otherwise
pushMetrics(metric, value, labelValues) ==
  IF value # <<>>
  THEN <<MustNewConstMetric(metric, "gauge", Float64(value[1]), labelValues)>>
  ELSE <<>>

RECURSIVE Concat(_)
\* the sends of the iterations of a range loop, one after the other
Concat(ss) == IF ss = <<>> THEN <<>> ELSE Head(ss) \o Concat(Tail(ss))

\* the body of the loop over node.SystemContainers
SystemContainerSends(s, nodeName, nodeSystemContainer) ==
  (IF nodeSystemContainer.Rootfs # <<>> THEN
       pushMetrics(s.nodeSystemContainerRootFsUsedBytes, nodeSystemContainer.Rootfs[1].UsedBytes, <<nodeName, nodeSystemContainer.Name>>)
       \o pushMetrics(s.nodeSystemContainerRootFsAvailableBytes, nodeSystemContainer.Rootfs[1].CapacityBytes, <<nodeName, nodeSystemContainer.Name>>)
       \o pushMetrics(s.nodeSystemContainerRootFsInodes, nodeSystemContainer.Rootfs[1].Inodes, <<nodeName, nodeSystemContainer.Name>>)
       \o pushMetrics(s.nodeSystemContainerRootFsInodesFree, nodeSystemContainer.Rootfs[1].InodesFree, <<nodeName, nodeSystemContainer.Name>>)
       \o pushMetrics(s.nodeSystemContainerRootFsInodesUsed, nodeSystemContainer.Rootfs[1].InodesUsed, <<nodeName, nodeSystemContainer.Name>>)
   ELSE <<>>)
  \o (IF nodeSystemContainer.Logs # <<>> THEN
          pushMetrics(s.nodeSystemContainerLogsUsedBytes, nodeSystemContainer.Logs[1].UsedBytes, <<nodeName, nodeSystemContainer.Name>>)
          \o pushMetrics(s.nodeSystemContainerLogsAvailableBytes, nodeSystemContainer.Logs[1].CapacityBytes, <<nodeName, nodeSystemContainer.Name>>)
          \o pushMetrics(s.nodeSystemContainerLogsInodes, nodeSystemContainer.Logs[1].Inodes, <<nodeName, nodeSystemContainer.Name>>)
          \o pushMetrics(s.nodeSystemContainerLogsInodesFree, nodeSystemContainer.Logs[1].InodesFree, <<nodeName, nodeSystemContainer.Name>>)
          \o pushMetrics(s.nodeSystemContainerLogsInodesUsed, nodeSystemContainer.Logs[1].InodesUsed, <<nodeName, nodeSystemContainer.Name>>)
      ELSE <<>>)
  \o (IF nodeSystemContainer.CPU # <<>> THEN
          pushMetrics(s.nodeSystemContainerCPUUsageNanoCores, nodeSystemContainer.CPU[1].UsageNanoCores, <<nodeName, nodeSystemContainer.Name>>)
          \o pushMetrics(s.nodeSystemContainerCPUUsageCoreNanoSeconds, nodeSystemContainer.CPU[1].UsageCoreNanoSeconds, <<nodeName, nodeSystemContainer.Name>>)
      ELSE <<>>)
  \o (IF nodeSystemContainer.Memory # <<>> THEN
          pushMetrics(s.nodeSystemContainerMemoryAvailableBytes, nodeSystemContainer.Memory[1].AvailableBytes, <<nodeName, nodeSystemContainer.Name>>)
          \o pushMetrics(s.nodeSystemContainerMemoryUsageBytes, nodeSystemContainer.Memory[1].UsageBytes, <<nodeName, nodeSystemContainer.Name>>)
          \o pushMetrics(s.nodeSystemContainerMemoryWorkingSetBytes, nodeSystemContainer.Memory[1].WorkingSetBytes, <<nodeName, nodeSystemContainer.Name>>)
          \o pushMetrics(s.nodeSystemContainerMemoryRSSBytes, nodeSystemContainer.Memory[1].RSSBytes, <<nodeName, nodeSystemContainer.Name>>)
          \o pushMetrics(s.nodeSystemContainerMemoryPageFaults, nodeSystemContainer.Memory[1].PageFaults, <<nodeName, nodeSystemContainer.Name>>)
          \o pushMetrics(s.nodeSystemContainerMemoryMajorPageFaults, nodeSystemContainer.Memory[1].MajorPageFaults, <<nodeName, nodeSystemContainer.Name>>)
      ELSE <<>>)
  \o (IF nodeSystemContainer.Swap # <<>> THEN
          pushMetrics(s.nodeSystemContainerSwapAvailableBytes, nodeSystemContainer.Swap[1].SwapAvailableBytes, <<nodeName, nodeSystemContainer.Name>>)
          \o pushMetrics(s.nodeSystemContainerSwapUsageBytes, nodeSystemContainer.Swap[1].SwapUsageBytes, <<nodeName, nodeSystemContainer.Name>>)
      ELSE <<>>)
  \o Concat([i \in 1..Len(nodeSystemContainer.Accelerators) |->
       LET accelerator == nodeSystemContainer.Accelerators[i] IN
       pushMetrics(s.nodeSystemContainerAcceleratorMemoryUsed, <<accelerator.MemoryUsed>>, <<nodeName, nodeSystemContainer.Name, accelerator.ID, accelerator.Model, accelerator.Make>>)
       \o pushMetrics(s.nodeSystemContainerAcceleratorMemoryTotal, <<accelerator.MemoryTotal>>, <<nodeName, nodeSystemContainer.Name, accelerator.ID, accelerator.Model, accelerator.Make>>)
       \o pushMetrics(s.nodeSystemContainerAcceleratorDutyCycle, <<accelerator.DutyCycle>>, <<nodeName, nodeSystemContainer.Name, accelerator.ID, accelerator.Model, accelerator.Make>>)])

\* the node groups that are read after node.Runtime has been dereferenced
NodeSends(s, nodeName, node) ==
  LET nodeRuntimeImageFs == node.Runtime[1].ImageFs
      nodeRuntimeContainerFs == node.Runtime[1].ContainerFs
  IN
  (IF nodeRuntimeImageFs # <<>> THEN
       pushMetrics(s.nodeRuntimeImageFsUsedBytes, nodeRuntimeImageFs[1].UsedBytes, <<nodeName>>)
       \o pushMetrics(s.nodeRuntimeImageFsAvailableBytes, nodeRuntimeImageFs[1].CapacityBytes, <<nodeName>>)
       \o pushMetrics(s.nodeRuntimeImageFsInodes, nodeRuntimeImageFs[1].Inodes, <<nodeName>>)
       \o pushMetrics(s.nodeRuntimeImageFsInodesFree, nodeRuntimeImageFs[1].InodesFree, <<nodeName>>)
       \o pushMetrics(s.nodeRuntimeImageFsInodesUsed, nodeRuntimeImageFs[1].InodesUsed, <<nodeName>>)
   ELSE <<>>)
  \o (IF nodeRuntimeContainerFs # <<>> THEN
          pushMetrics(s.nodeRuntimeContainerFsUsedBytes, nodeRuntimeContainerFs[1].UsedBytes, <<nodeName>>)
          \o pushMetrics(s.nodeRuntimeContainerFsAvailableBytes, nodeRuntimeContainerFs[1].CapacityBytes, <<nodeName>>)
          \o pushMetrics(s.nodeRuntimeContainerFsInodes, nodeRuntimeContainerFs[1].Inodes, <<nodeName>>)
          \o pushMetrics(s.nodeRuntimeContainerFsInodesFree, nodeRuntimeContainerFs[1].InodesFree, <<nodeName>>)
          \o pushMetrics(s.nodeRuntimeContainerFsInodesUsed, nodeRuntimeContainerFs[1].InodesUsed, <<nodeName>>)
      ELSE <<>>)
  \o (IF node.CPU # <<>> THEN
          pushMetrics(s.nodeCPUUsageNanoCores, node.CPU[1].UsageNanoCores, <<nodeName>>)
          \o pushMetrics(s.nodeCPUUsageCoreNanoSeconds, node.CPU[1].UsageCoreNanoSeconds, <<nodeName>>)
      ELSE <<>>)
  \o (IF node.Memory # <<>> THEN
          pushMetrics(s.nodeMemoryAvailableBytes, node.Memory[1].AvailableBytes, <<nodeName>>)
          \o pushMetrics(s.nodeMemoryUsageBytes, node.Memory[1].UsageBytes, <<nodeName>>)
          \o pushMetrics(s.nodeMemoryWorkingSetBytes, node.Memory[1].WorkingSetBytes, <<nodeName>>)
          \o pushMetrics(s.nodeMemoryRSSBytes, node.Memory[1].RSSBytes, <<nodeName>>)
          \o pushMetrics(s.nodeMemoryPageFaults, node.Memory[1].PageFaults, <<nodeName>>)
      ELSE <<>>)
  \o (IF node.Swap # <<>> THEN
          pushMetrics(s.nodeSwapAvailableBytes, node.Swap[1].SwapAvailableBytes, <<nodeName>>)
          \o pushMetrics(s.nodeSwapUsageBytes, node.Swap[1].SwapUsageBytes, <<nodeName>>)
      ELSE <<>>)
  \o (IF node.Rlimit # <<>> THEN
        (IF node.Rlimit[1].MaxPID # <<>>
         THEN <<MustNewConstMetric(s.nodeRLimitMaxPID, "gauge",
                                   Float64(node.Rlimit[1].MaxPID[1]), <<nodeName>>)>>
         ELSE <<>>)
        \o (IF node.Rlimit[1].NumOfRunningProcesses # <<>>
            THEN <<MustNewConstMetric(s.nodeRLimitNumOfRunningProcess, "gauge",
                                      Float64(node.Rlimit[1].NumOfRunningProcesses[1]),
                                      <<nodeName>>)>>
            ELSE <<>>)
      ELSE <<>>)
  \o (IF node.Network # <<>> THEN
        Concat([i \in 1..Len(node.Network[1].Interfaces) |->
          LET interfaceStats == node.Network[1].Interfaces[i]
              interfaceName == interfaceStats.Name
          IN
          pushMetrics(s.nodeInterfaceRxBytes, interfaceStats.RxBytes, <<nodeName, interfaceName>>)
          \o pushMetrics(s.nodeInterfaceRxErrors, interfaceStats.RxErrors, <<nodeName, interfaceName>>)
          \o pushMetrics(s.nodeInterfaceTxBytes, interfaceStats.TxBytes, <<nodeName, interfaceName>>)
          \o pushMetrics(s.nodeInterfaceTxErrors, interfaceStats.TxErrors, <<nodeName, interfaceName>>)])
      ELSE <<>>)

\* the body of the loop over pod.Containers
ContainerSends(s, nodeName, namespace, podName, container) ==
  (IF container.Rootfs # <<>> THEN
       pushMetrics(s.containerRootFsUsedBytes, container.Rootfs[1].UsedBytes, <<nodeName, namespace, podName, container.Name>>)
       \o pushMetrics(s.containerRootFsAvailableBytes, container.Rootfs[1].CapacityBytes, <<nodeName, namespace, podName, container.Name>>)
       \o pushMetrics(s.containerRootFsInodes, container.Rootfs[1].Inodes, <<nodeName, namespace, podName, container.Name>>)
       \o pushMetrics(s.containerRootFsInodesFree, container.Rootfs[1].InodesFree, <<nodeName, namespace, podName, container.Name>>)
       \o pushMetrics(s.containerRootFsInodesUsed, container.Rootfs[1].InodesUsed, <<nodeName, namespace, podName, container.Name>>)
   ELSE <<>>)
  \o (IF container.Logs # <<>> THEN
          pushMetrics(s.containerLogsUsedBytes, container.Logs[1].UsedBytes, <<nodeName, namespace, podName, container.Name>>)
          \o pushMetrics(s.containerLogsAvailableBytes, container.Logs[1].CapacityBytes, <<nodeName, namespace, podName, container.Name>>)
          \o pushMetrics(s.containerLogsInodes, container.Logs[1].Inodes, <<nodeName, namespace, podName, container.Name>>)
          \o pushMetrics(s.containerLogsInodesFree, container.Logs[1].InodesFree, <<nodeName, namespace, podName, container.Name>>)
          \o pushMetrics(s.containerLogsInodesUsed, container.Logs[1].InodesUsed, <<nodeName, namespace, podName, container.Name>>)
      ELSE <<>>)
  \o (IF container.CPU # <<>> THEN
          pushMetrics(s.containerCPUUsageNanoCores, container.CPU[1].UsageNanoCores, <<nodeName, namespace, podName, container.Name>>)
          \o pushMetrics(s.containerCPUUsageCoreNanoSeconds, container.CPU[1].UsageCoreNanoSeconds, <<nodeName, namespace, podName, container.Name>>)
      ELSE <<>>)
  \o (IF container.Memory # <<>> THEN
          pushMetrics(s.containerMemoryAvailableBytes, container.Memory[1].AvailableBytes, <<nodeName, namespace, podName, container.Name>>)
          \o pushMetrics(s.containerMemoryUsageBytes, container.Memory[1].UsageBytes, <<nodeName, namespace, podName, container.Name>>)
          \o pushMetrics(s.containerMemoryWorkingSetBytes, container.Memory[1].WorkingSetBytes, <<nodeName, namespace, podName, container.Name>>)
          \o pushMetrics(s.containerMemoryRSSBytes, container.Memory[1].RSSBytes, <<nodeName, namespace, podName, container.Name>>)
          \o pushMetrics(s.containerMemoryPageFaults, container.Memory[1].PageFaults, <<nodeName, namespace, podName, container.Name>>)
      ELSE <<>>)
  \o (IF container.Swap # <<>> THEN
          pushMetrics(s.containerSwapAvailableBytes, container.Swap[1].SwapAvailableBytes, <<nodeName, namespace, podName, container.Name>>)
          \o pushMetrics(s.containerSwapUsageBytes, container.Swap[1].SwapUsageBytes, <<nodeName, namespace, podName, container.Name>>)
      ELSE <<>>)
  \o Concat([i \in 1..Len(container.Accelerators) |->
       LET accelerator == container.Accelerators[i] IN
       pushMetrics(s.containerAcceleratorMemoryUsed, <<accelerator.MemoryUsed>>, <<nodeName, podName, namespace, container.Name, accelerator.ID, accelerator.Model, accelerator.Make>>)
       \o pushMetrics(s.containerAcceleratorMemoryTotal, <<accelerator.MemoryTotal>>, <<nodeName, podName, namespace, container.Name, accelerator.ID, accelerator.Model, accelerator.Make>>)
       \o pushMetrics(s.containerAcceleratorDutyCycle, <<accelerator.DutyCycle>>, <<nodeName, podName, namespace, container.Name, accelerator.ID, accelerator.Model, accelerator.Make>>)])

\* the body of the loop over pod.VolumeStats
VolumeSends(s, nodeName, namespace, podName, podVolume) ==
  pushMetrics(s.podVolumeUsedBytes, podVolume.FsStats.UsedBytes, <<nodeName, namespace, podName, podVolume.Name>>)
  \o pushMetrics(s.podVolumeAvailableBytes, podVolume.FsStats.CapacityBytes, <<nodeName, namespace, podName, podVolume.Name>>)
  \o pushMetrics(s.podVolumeInodes, podVolume.FsStats.Inodes, <<nodeName, namespace, podName, podVolume.Name>>)
  \o pushMetrics(s.podVolumeInodesFree, podVolume.FsStats.InodesFree, <<nodeName, namespace, podName, podVolume.Name>>)
  \o pushMetrics(s.podVolumeInodesUsed, podVolume.FsStats.InodesUsed, <<nodeName, namespace, podName, podVolume.Name>>)
  \o (IF podVolume.VolumeHealthStats # <<>> THEN
        LET podVolumeHealthStatus ==
              IF podVolume.VolumeHealthStats[1].Abnormal THEN 1 ELSE 0
        IN pushMetrics(s.podVolumeHealthStatus, <<podVolumeHealthStatus>>, <<nodeName, namespace, podName, podVolume.Name>>)
      ELSE <<>>)

\* the body of the loop over summary.Pods
PodSends(s, nodeName, pod) ==
  LET podName == pod.PodRef.Name
      namespace == pod.PodRef.Namespace
  IN
  (IF pod.CPU # <<>> THEN
       pushMetrics(s.podCPUUsageNanoCores, pod.CPU[1].UsageNanoCores, <<nodeName, namespace, podName>>)
       \o pushMetrics(s.podCPUUsageCoreNanoSeconds, pod.CPU[1].UsageCoreNanoSeconds, <<nodeName, namespace, podName>>)
   ELSE <<>>)
  \o (IF pod.Memory # <<>> THEN
          pushMetrics(s.podMemoryAvailableBytes, pod.Memory[1].AvailableBytes, <<nodeName, namespace, podName>>)
          \o pushMetrics(s.podMemoryUsageBytes, pod.Memory[1].UsageBytes, <<nodeName, namespace, podName>>)
          \o pushMetrics(s.podMemoryWorkingSetBytes, pod.Memory[1].WorkingSetBytes, <<nodeName, namespace, podName>>)
          \o pushMetrics(s.podMemoryRSSBytes, pod.Memory[1].RSSBytes, <<nodeName, namespace, podName>>)
          \o pushMetrics(s.podMemoryPageFaults, pod.Memory[1].PageFaults, <<nodeName, namespace, podName>>)
      ELSE <<>>)
  \o (IF pod.Swap # <<>> THEN
          pushMetrics(s.podSwapAvailableBytes, pod.Swap[1].SwapAvailableBytes, <<nodeName, namespace, podName>>)
          \o pushMetrics(s.podSwapUsageBytes, pod.Swap[1].SwapUsageBytes, <<nodeName, namespace, podName>>)
      ELSE <<>>)
  \o (IF pod.EphemeralStorage # <<>> THEN
          pushMetrics(s.podEphemeralStorageUsedBytes, pod.EphemeralStorage[1].UsedBytes, <<nodeName, namespace, podName>>)
          \o pushMetrics(s.podEphemeralStorageAvailableBytes, pod.EphemeralStorage[1].CapacityBytes, <<nodeName, namespace, podName>>)
          \o pushMetrics(s.podEphemeralStorageInodes, pod.EphemeralStorage[1].Inodes, <<nodeName, namespace, podName>>)
          \o pushMetrics(s.podEphemeralStorageInodesFree, pod.EphemeralStorage[1].InodesFree, <<nodeName, namespace, podName>>)
          \o pushMetrics(s.podEphemeralStorageInodesUsed, pod.EphemeralStorage[1].InodesUsed, <<nodeName, namespace, podName>>)
      ELSE <<>>)
  \o (IF pod.ProcessStats # <<>> THEN
          pushMetrics(s.podProcessCount, pod.ProcessStats[1].ProcessCount, <<nodeName, namespace, podName>>)
      ELSE <<>>)
  \o Concat([i \in 1..Len(pod.VolumeStats) |->
       VolumeSends(s, nodeName, namespace, podName, pod.VolumeStats[i])])
  \o (IF pod.Network # <<>> THEN
        Concat([i \in 1..Len(pod.Network[1].Interfaces) |->
          LET interfaceStats == pod.Network[1].Interfaces[i]
              interfaceName == interfaceStats.Name
          IN
          pushMetrics(s.podInterfaceRxBytes, interfaceStats.RxBytes, <<nodeName, namespace, podName, interfaceName>>)
          \o pushMetrics(s.podInterfaceRxErrors, interfaceStats.RxErrors, <<nodeName, namespace, podName, interfaceName>>)
          \o pushMetrics(s.podInterfaceTxBytes, interfaceStats.TxBytes, <<nodeName, namespace, podName, interfaceName>>)
          \o pushMetrics(s.podInterfaceTxErrors, interfaceStats.TxErrors, <<nodeName, namespace, podName, interfaceName>>)])
      ELSE <<>>)
  \o Concat([i \in 1..Len(pod.Containers) |->
       ContainerSends(s, nodeName, namespace, podName, pod.Containers[i])])

\* Collect walking the system containers after the other node groups
MapSummarySystemContainersLast(s, summary) ==
  LET node == summary.Node
      nodeName == node.NodeName
      nodeFs == node.Fs
      first ==
        (IF nodeFs # <<>> THEN
             pushMetrics(s.nodeFsUsedBytes, nodeFs[1].UsedBytes, <<nodeName>>)
             \o pushMetrics(s.nodeFsAvailableBytes, nodeFs[1].CapacityBytes, <<nodeName>>)
             \o pushMetrics(s.nodeFsInodes, nodeFs[1].Inodes, <<nodeName>>)
             \o pushMetrics(s.nodeFsInodesFree, nodeFs[1].InodesFree, <<nodeName>>)
             \o pushMetrics(s.nodeFsInodesUsed, nodeFs[1].InodesUsed, <<nodeName>>)
         ELSE <<>>)
      all ==
        IF node.Runtime = <<>> THEN first
        ELSE first \o NodeSends(s, nodeName, node)
                   \o Concat([i \in 1..Len(node.SystemContainers) |->
                               SystemContainerSends(s, nodeName, node.SystemContainers[i])])
                   \o Concat([i \in 1..Len(summary.Pods) |->
                               PodSends(s, nodeName, summary.Pods[i])])
      bad == {i \in 1..Len(all) : InconsistentCardinality(all[i])}
  IN IF bad # {}
     THEN [sent |-> SubSeq(all, 1, (CHOOSE i \in bad : \A j \in bad : i <= j) - 1),
           panic |-> TRUE]
     ELSE [sent |-> all, panic |-> node.Runtime = <<>>]

\* Collect after a successful parse.  The system containers and node.Fs are
\* sent first; node.Runtime is then dereferenced without a nil check, so a
\* summary without "runtime" ends the walk there with a nil-pointer panic.
\* A metric with inconsistent label cardinality panics in the same way.
MapSummary(s, summary) ==
  LET node == summary.Node
      nodeName == node.NodeName
      nodeFs == node.Fs
      first ==
        Concat([i \in 1..Len(node.SystemContainers) |->
                 SystemContainerSends(s, nodeName, node.SystemContainers[i])])
        \o (IF nodeFs # <<>> THEN
                pushMetrics(s.nodeFsUsedBytes, nodeFs[1].UsedBytes, <<nodeName>>)
                \o pushMetrics(s.nodeFsAvailableBytes, nodeFs[1].CapacityBytes, <<nodeName>>)
                \o pushMetrics(s.nodeFsInodes, nodeFs[1].Inodes, <<nodeName>>)
                \o pushMetrics(s.nodeFsInodesFree, nodeFs[1].InodesFree, <<nodeName>>)
                \o pushMetrics(s.nodeFsInodesUsed, nodeFs[1].InodesUsed, <<nodeName>>)
            ELSE <<>>)
      all ==
        IF node.Runtime = <<>> THEN first
        ELSE first \o NodeSends(s, nodeName, node)
                   \o Concat([i \in 1..Len(summary.Pods) |->
                               PodSends(s, nodeName, summary.Pods[i])])
      bad == {i \in 1..Len(all) : InconsistentCardinality(all[i])}
  IN IF bad # {}
     THEN [sent |-> SubSeq(all, 1, (CHOOSE i \in bad : \A j \in bad : i <= j) - 1),
           panic |-> TRUE]
     ELSE [sent |-> all, panic |-> node.Runtime = <<>>]

(***************************************************************************)
(* The documents the stats endpoint is taken to answer with.               *)
(***************************************************************************)
\* object o with key k set to v
Put(o, k, v) == [x \in DOMAIN o \cup {k} |-> IF x = k THEN v ELSE o[x]]

\* object o without key k
Del(o, k) == [x \in DOMAIN o \ {k} |-> o[x]]

FsKeys == <<"usedBytes", "capacityBytes", "inodes", "inodesFree", "inodesUsed">>
CPUKeys == <<"usageNanoCores", "usageCoreNanoSeconds">>
MemoryKeys == <<"availableBytes", "usageBytes", "workingSetBytes", "rssBytes",
                "pageFaults", "majorPageFaults">>
SwapKeys == <<"swapAvailableBytes", "swapUsageBytes">>
RlimitKeys == <<"maxpid", "curproc">>
InterfaceKeys == <<"rxBytes", "rxErrors", "txBytes", "txErrors">>
ProcessKeys == <<"process_count">>

\* an object with every key of keys, the i-th key holding base + i
NumObj(keys, base) ==
  [k \in {keys[i] : i \in DOMAIN keys} |->
     base + (CHOOSE i \in DOMAIN keys : keys[i] = k)]

\* the shapes a group of optional leaves is given: all leaves, none, one
\* leaf alone, one leaf alone at zero, all leaves but one
Variants(keys, base) ==
  LET full == NumObj(keys, base)
      ks == DOMAIN full
  IN {full, <<>>}
     \cup {[k \in {j} |-> full[j]] : j \in ks}
     \cup {[k \in {j} |-> 0] : j \in ks}
     \cup {[k \in ks \ {j} |-> full[k]] : j \in ks}

Accelerator(id, base) ==
  [id |-> id, model |-> "model-" \o id, make |-> "make-" \o id,
   memoryTotal |-> base + 1, memoryUsed |-> base + 2, dutyCycle |-> base + 3]

Interface(name, base) == Put(NumObj(InterfaceKeys, base), "name", name)

Volume(name, base, abnormal) ==
  Put(Put(NumObj(FsKeys, base), "name", name),
      "volumeHealthStats", [abnormal |-> abnormal])

Container(name, base) ==
  [name |-> name,
   startTime |-> "2024-01-01T00:00:00Z",
   rootfs |-> NumObj(FsKeys, base + 10),
   logs |-> NumObj(FsKeys, base + 20),
   cpu |-> NumObj(CPUKeys, base + 30),
   memory |-> NumObj(MemoryKeys, base + 40),
   swap |-> NumObj(SwapKeys, base + 50),
   accelerators |-> <<Accelerator("gpu-" \o name, base + 60)>>]

Pod(namespace, name, base) ==
  ("ephemeral-storage" :> NumObj(FsKeys, base + 40)) @@
  [podRef |-> [name |-> name, namespace |-> namespace, uid |-> "uid-" \o name],
   cpu |-> NumObj(CPUKeys, base + 10),
   memory |-> NumObj(MemoryKeys, base + 20),
   swap |-> NumObj(SwapKeys, base + 30),
   process_stats |-> NumObj(ProcessKeys, base + 50),
   volume |-> <<Volume("vol-" \o name, base + 60, TRUE)>>,
   network |-> [interfaces |-> <<Interface("eth0-" \o name, base + 70)>>],
   containers |-> <<Container("ctr-" \o name, base + 100)>>]

FullRuntime ==
  [imageFs |-> NumObj(FsKeys, 20), containerFs |-> NumObj(FsKeys, 30)]

FullNode ==
  [nodeName |-> "node-a",
   startTime |-> "2024-01-01T00:00:00Z",
   fs |-> NumObj(FsKeys, 10),
   runtime |-> FullRuntime,
   cpu |-> NumObj(CPUKeys, 40),
   memory |-> NumObj(MemoryKeys, 50),
   swap |-> NumObj(SwapKeys, 60),
   rlimit |-> NumObj(RlimitKeys, 70),
   network |-> [interfaces |-> <<Interface("eth0", 80)>>],
   systemContainers |-> <<Container("kubelet", 100)>>]

FullSystemContainer == FullNode.systemContainers[1]
FullPod == Pod("kube-system", "pod-a", 300)
FullContainer == FullPod.containers[1]
FullVolume == FullPod.volume[1]

\* every group present with every leaf
FullDoc == [node |-> FullNode, pods |-> <<FullPod>>]

NodeWith(k, v) == Put(FullDoc, "node", Put(FullNode, k, v))
RuntimeWith(k, v) == NodeWith("runtime", Put(FullRuntime, k, v))
SystemContainerWith(k, v) ==
  NodeWith("systemContainers", <<Put(FullSystemContainer, k, v)>>)
PodWith(k, v) == Put(FullDoc, "pods", <<Put(FullPod, k, v)>>)
ContainerWith(k, v) == PodWith("containers", <<Put(FullContainer, k, v)>>)

\* the document of TestDecodingJson: a node name and one pod with one
\* container whose rootfs has capacityBytes and usedBytes only (capacityBytes
\* scaled down from 107361579008)
ScenarioDoc ==
  [node |-> [nodeName |-> "ip-172-20-125-125.ec2.internal"],
   pods |-> <<[podRef |-> [name |-> "aws-xray-daemon-bpmqx",
                           namespace |-> "kube-system"],
               containers |-> <<[name |-> "aws-xray-daemon",
                                 rootfs |-> [capacityBytes |-> 1073, usedBytes |-> 0]]>>]>>]

\* several entities of every kind
WideDoc ==
  [node |-> Put(Put(FullNode, "systemContainers",
                    <<Container("kubelet", 100),
                      Put(Container("runtime", 200), "accelerators",
                          <<Accelerator("gpu-0", 260), Accelerator("gpu-1", 270)>>)>>),
                "network", [interfaces |-> <<Interface("eth0", 80), Interface("eth1", 90)>>]),
   pods |-> <<Pod("kube-system", "pod-a", 300),
              Put(Pod("default", "pod-b", 500), "volume",
                  <<Volume("vol-1", 560, FALSE), Del(Volume("vol-2", 570, TRUE), "volumeHealthStats")>>)>>]

NodeGroupDocs ==
  {NodeWith("fs", v) : v \in Variants(FsKeys, 10)}
  \cup {RuntimeWith("imageFs", v) : v \in Variants(FsKeys, 20)}
  \cup {RuntimeWith("containerFs", v) : v \in Variants(FsKeys, 30)}
  \cup {NodeWith("cpu", v) : v \in Variants(CPUKeys, 40)}
  \cup {NodeWith("memory", v) : v \in Variants(MemoryKeys, 50)}
  \cup {NodeWith("swap", v) : v \in Variants(SwapKeys, 60)}
  \cup {NodeWith("rlimit", v) : v \in Variants(RlimitKeys, 70)}
  \cup {NodeWith("network", [interfaces |-> <<Put(v, "name", "eth0")>>]) :
          v \in Variants(InterfaceKeys, 80)}
  \cup {Put(FullDoc, "node", Del(FullNode, k)) :
          k \in {"fs", "runtime", "cpu", "memory", "swap", "rlimit", "network",
                 "systemContainers", "nodeName"}}
  \cup {NodeWith("runtime", Del(FullRuntime, k)) : k \in {"imageFs", "containerFs"}}

SystemContainerGroupDocs ==
  {SystemContainerWith("rootfs", v) : v \in Variants(FsKeys, 110)}
  \cup {SystemContainerWith("logs", v) : v \in Variants(FsKeys, 120)}
  \cup {SystemContainerWith("cpu", v) : v \in Variants(CPUKeys, 130)}
  \cup {SystemContainerWith("memory", v) : v \in Variants(MemoryKeys, 140)}
  \cup {SystemContainerWith("swap", v) : v \in Variants(SwapKeys, 150)}
  \cup {SystemContainerWith("accelerators", v) :
          v \in {<<>>, <<[id |-> "gpu-z", model |-> "m", make |-> "k",
                          memoryTotal |-> 0, memoryUsed |-> 0, dutyCycle |-> 0]>>}}
  \cup {NodeWith("systemContainers", <<Del(FullSystemContainer, k)>>) :
          k \in {"rootfs", "logs", "cpu", "memory", "swap", "accelerators"}}

PodGroupDocs ==
  {PodWith("cpu", v) : v \in Variants(CPUKeys, 310)}
  \cup {PodWith("memory", v) : v \in Variants(MemoryKeys, 320)}
  \cup {PodWith("swap", v) : v \in Variants(SwapKeys, 330)}
  \cup {PodWith("ephemeral-storage", v) : v \in Variants(FsKeys, 340)}
  \cup {PodWith("process_stats", v) : v \in Variants(ProcessKeys, 350)}
  \cup {PodWith("volume", <<Put(Put(v, "name", "vol-pod-a"), "volumeHealthStats",
                                [abnormal |-> TRUE])>>) :
          v \in Variants(FsKeys, 360)}
  \cup {PodWith("volume", <<Put(FullVolume, "volumeHealthStats", [abnormal |-> FALSE])>>),
        PodWith("volume", <<Del(FullVolume, "volumeHealthStats")>>)}
  \cup {PodWith("network", [interfaces |-> <<Put(v, "name", "eth0-pod-a")>>]) :
          v \in Variants(InterfaceKeys, 370)}
  \cup {Put(FullDoc, "pods", <<Del(FullPod, k)>>) :
          k \in {"cpu", "memory", "swap", "ephemeral-storage", "process_stats",
                 "volume", "network", "containers"}}
  \cup {PodWith("volume", <<Put(FullVolume, "volumeHealthStats", <<>>)>>)}

ContainerGroupDocs ==
  {ContainerWith("rootfs", v) : v \in Variants(FsKeys, 410)}
  \cup {ContainerWith("logs", v) : v \in Variants(FsKeys, 420)}
  \cup {ContainerWith("cpu", v) : v \in Variants(CPUKeys, 430)}
  \cup {ContainerWith("memory", v) : v \in Variants(MemoryKeys, 440)}
  \cup {ContainerWith("swap", v) : v \in Variants(SwapKeys, 450)}
  \cup {ContainerWith("accelerators", v) :
          v \in {<<>>, <<[id |-> "gpu-z", model |-> "m", make |-> "k",
                          memoryTotal |-> 0, memoryUsed |-> 0, dutyCycle |-> 0]>>}}
  \cup {PodWith("containers", <<Del(FullContainer, k)>>) :
          k \in {"rootfs", "logs", "cpu", "memory", "swap", "accelerators"}}

\* the JSON documents of the model
Docs ==
  {FullDoc, WideDoc, ScenarioDoc, <<>>, Put(ScenarioDoc, "node", Put(ScenarioDoc.node, "runtime", <<>>)),
   Put(FullDoc, "pods", <<>>), Del(FullDoc, "pods")}
  \cup NodeGroupDocs \cup SystemContainerGroupDocs \cup PodGroupDocs
  \cup ContainerGroupDocs

\* the response bodies: the documents, and one body that is not JSON
NotJSON == [json |-> FALSE, doc |-> <<>>]
Bodies == {[json |-> TRUE, doc |-> d] : d \in Docs} \cup {NotJSON}

(***************************************************************************)
(* The exporter: one Scraper, and the Collect invocations of the registry. *)
(***************************************************************************)
\* http.StatusOK
StatusOK == 200

\* the target addresses the Scraper may be built with; the second one makes
\* http.NewRequest fail (a space is not allowed in a host name)
TargetIPs == {"10.0.0.7", "10.0.0 7"}

\* http.NewRequest succeeds on a URL that parses
ValidURL(targetIP) == targetIP = "10.0.0.7"

\* the contents the token file may have
Tokens == {"token-1", "token-2"}

\* the errors client.Do may return: no connection, or the timeout expired
TransportErrors == {"connection refused", "Client.Timeout exceeded"}

\* the status codes the endpoint answers with
StatusCodes == {StatusOK, 503}

VARIABLES
  s,          \* the *prometheus.Desc fields of the Scraper
  targetIP,   \* Scraper.targetIP
  errCnt,     \* Scraper.errCnt
  tokenFile,  \* the file at Scraper.tokenPath: <<>> when it cannot be read
  process,    \* "running", "exited" (logger.Fatal) or "panicked"
  call,       \* for every invocation of Collect: its position and locals
  ch,         \* for every invocation of Collect: the metrics sent on ch
  lastSent,   \* the value last sent with the error counter: <<>> when none
  described,  \* the descriptors sent by the last call of Describe
  authorization,  \* the Authorization headers of the last two requests sent
  counted     \* per failure class, the pulls that went through s.errCnt++

vars == <<s, targetIP, errCnt, tokenFile, process, call, ch, lastSent,
          described, authorization, counted>>

\* the labels the error counter is sent with
Causes == {"request error", "status error", "read body error", "parse body error"}

\* the locals of a Collect invocation that has not started
IdleCall ==
  [pc         |-> "Idle",
   token      |-> "",      \* the token read by os.ReadFile
   gets       |-> 0,       \* calls of client.Do in this invocation
   doErr      |-> "",      \* the error of client.Do, "" when there is none
   resp       |-> <<>>,    \* the response of client.Do
   deferred   |-> FALSE,   \* defer resp.Body.Close() has been reached
   closed     |-> FALSE,   \* resp.Body.Close() has run
   readErr    |-> FALSE,   \* io.ReadAll returned an error
   body       |-> <<>>,    \* the bytes io.ReadAll returned
   parses     |-> 0,       \* calls of s.parse in this invocation
   summary    |-> <<>>,    \* the summary s.parse returned
   cause      |-> "",      \* the label value of the error counter
   reg        |-> 0,       \* the value s.errCnt++ has loaded
   errAtEntry |-> 0,       \* s.errCnt when the invocation began
   prevSent   |-> <<>>]    \* lastSent when this invocation sent the counter

Init ==
  /\ s = NewScraper
  /\ targetIP \in TargetIPs
  /\ errCnt = 0
  /\ tokenFile \in {<<>>} \cup {<<t>> : t \in Tokens}
  /\ process = "running"
  /\ call = [p \in Procs |-> IdleCall]
  /\ ch = [p \in Procs |-> <<>>]
  /\ lastSent = <<>>
  /\ described = <<>>
  /\ authorization = <<>>
  /\ counted = [cause \in Causes |-> 0]

\* fmt.Sprintf("Bearer %s", token)
Bearer(token) == "Bearer " \o token

\* the last two requests, once one with header h was sent
Sent(headers, h) ==
  IF Len(headers) < 2 THEN Append(headers, h) ELSE <<headers[2], h>>

\* the deferred resp.Body.Close() runs when Collect returns or panics
RunDeferred(c) == [c EXCEPT !.closed = c.deferred]

\* Describe leaving out the error counter's descriptor
DescribeWithoutErrors ==
  /\ process = "running"
  /\ described' = Tail(DescribeSends(s))
  /\ UNCHANGED <<s, targetIP, errCnt, tokenFile, process, call, ch, lastSent, authorization, counted>>

\* Describe announcing only the metrics the running pulls have data for
DescribeAvailableOnly ==
  /\ process = "running"
  /\ described' = SelectSeq(DescribeSends(s),
                            LAMBDA d : \/ d = s.errors
                                       \/ \E p \in Procs : \E i \in DOMAIN ch[p] :
                                            ch[p][i].desc = d)
  /\ UNCHANGED <<s, targetIP, errCnt, tokenFile, process, call, ch, lastSent, authorization, counted>>

\* Scraper.Describe
Describe ==
  /\ process = "running"
  /\ described' = DescribeSends(s)
  /\ UNCHANGED <<s, targetIP, errCnt, tokenFile, process, call, ch, lastSent, authorization, counted>>

\* The token file is replaced, or removed, by whoever provisions it.  Only
\* os.ReadFile observes the file, so the change is taken at the points where
\* a read can follow it: while no invocation is past its read.
RotateToken ==
  /\ process = "running"
  /\ \A q \in Procs : call[q].pc \in {"Idle", "ReadToken"}
  /\ \E t \in ({<<>>} \cup {<<x>> : x \in Tokens}) \ {tokenFile} : tokenFile' = t
  /\ UNCHANGED <<s, targetIP, errCnt, process, call, ch, lastSent, described, authorization, counted>>

\* Collect counting a request that cannot be built as a failed request
NewRequestCounted(p) ==
  /\ call[p].pc = "Idle"
  /\ call' = [call EXCEPT ![p] =
       IF ValidURL(targetIP)
       THEN [@ EXCEPT !.pc = "ReadToken", !.errAtEntry = errCnt]
       ELSE [@ EXCEPT !.pc = "IncLoad", !.errAtEntry = errCnt,
                      !.cause = "request error"]]
  /\ ch' = [ch EXCEPT ![p] = <<>>]
  /\ UNCHANGED <<s, targetIP, errCnt, tokenFile, process, lastSent, described, authorization, counted>>

\* Collect is entered: http.NewRequest.  When it fails Collect logs and
\* returns.
NewRequest(p) ==
  /\ call[p].pc = "Idle"
  /\ call' = [call EXCEPT ![p] =
       [@ EXCEPT !.pc = IF ValidURL(targetIP) THEN "ReadToken" ELSE "Done",
                 !.errAtEntry = errCnt]]
  /\ ch' = [ch EXCEPT ![p] = <<>>]
  /\ UNCHANGED <<s, targetIP, errCnt, tokenFile, process, lastSent, described, authorization, counted>>

\* Collect is called while no other invocation is running; pulls that follow
\* one another use the first invocation
CollectBegin(p) ==
  /\ process = "running"
  /\ errCnt < MaxErrors
  /\ p = 1
  /\ \A q \in Procs : call[q].pc = "Idle"
  /\ NewRequest(p)

\* Collect logging the unreadable token and going on with an empty one
ReadTokenNotFatal(p) ==
  /\ process = "running"
  /\ call[p].pc = "ReadToken"
  /\ call' = [call EXCEPT ![p] =
       [@ EXCEPT !.pc = "Fetching",
                 !.token = IF tokenFile = <<>> THEN "" ELSE tokenFile[1],
                 !.gets = @ + 1]]
  /\ authorization' =
       Sent(authorization, Bearer(IF tokenFile = <<>> THEN "" ELSE tokenFile[1]))
  /\ UNCHANGED <<s, targetIP, errCnt, tokenFile, process, ch, lastSent, described, counted>>

\* Collect presenting the token of its first request for good
ReadTokenCached(p) ==
  /\ process = "running"
  /\ call[p].pc = "ReadToken"
  /\ IF authorization = <<>> /\ tokenFile = <<>>
     THEN /\ process' = "exited"
          /\ UNCHANGED <<call, authorization>>
     ELSE /\ LET token == IF authorization = <<>> THEN tokenFile[1]
                          ELSE CHOOSE x \in Tokens :
                                 Bearer(x) = authorization[Len(authorization)]
             IN /\ call' = [call EXCEPT ![p] =
                      [@ EXCEPT !.pc = "Fetching", !.token = token, !.gets = @ + 1]]
                /\ authorization' = Sent(authorization, Bearer(token))
          /\ UNCHANGED process
  /\ UNCHANGED <<s, targetIP, errCnt, tokenFile, ch, lastSent, described, counted>>

\* os.ReadFile(s.tokenPath): logger.Fatal ends the process when it fails;
\* otherwise the token is put in the Authorization header and client.Do is
\* called
ReadToken(p) ==
  /\ process = "running"
  /\ call[p].pc = "ReadToken"
  /\ IF tokenFile = <<>>
     THEN /\ process' = "exited"
          /\ UNCHANGED <<call, authorization>>
     ELSE /\ call' = [call EXCEPT ![p] =
               [@ EXCEPT !.pc = "Fetching", !.token = tokenFile[1],
                         !.gets = @ + 1]]
          /\ authorization' = Sent(authorization, Bearer(tokenFile[1]))
          /\ UNCHANGED process
  /\ UNCHANGED <<s, targetIP, errCnt, tokenFile, ch, lastSent, described, counted>>

\* Collect calling client.Do once more after an error
ClientDoRetrying(p) ==
  /\ process = "running"
  /\ call[p].pc = "Fetching"
  /\ \/ \E e \in TransportErrors :
          call' = [call EXCEPT ![p] =
            IF call[p].gets < 2
            THEN [@ EXCEPT !.gets = @ + 1]
            ELSE [@ EXCEPT !.pc = "IncLoad", !.doErr = e, !.cause = "request error"]]
     \/ \E code \in StatusCodes :
          call' = [call EXCEPT ![p] =
            [@ EXCEPT !.pc = "CheckStatus", !.resp = <<[StatusCode |-> code]>>]]
  /\ UNCHANGED <<s, targetIP, errCnt, tokenFile, process, ch, lastSent, described, authorization, counted>>

\* client.Do returns an error, or a response
ClientDo(p) ==
  /\ process = "running"
  /\ call[p].pc = "Fetching"
  /\ \/ \E e \in TransportErrors :
          call' = [call EXCEPT ![p] =
            [@ EXCEPT !.pc = "IncLoad", !.doErr = e, !.cause = "request error"]]
     \/ \E code \in StatusCodes :
          call' = [call EXCEPT ![p] =
            [@ EXCEPT !.pc = "CheckStatus", !.resp = <<[StatusCode |-> code]>>]]
  /\ UNCHANGED <<s, targetIP, errCnt, tokenFile, process, ch, lastSent, described, authorization, counted>>

\* Collect without the check of the status code
CheckStatusSkipped(p) ==
  /\ process = "running"
  /\ call[p].pc = "CheckStatus"
  /\ call' = [call EXCEPT ![p] = [@ EXCEPT !.pc = "ReadBody", !.deferred = TRUE]]
  /\ UNCHANGED <<s, targetIP, errCnt, tokenFile, process, ch, lastSent, described, authorization, counted>>

\* resp.StatusCode != http.StatusOK; past it, defer resp.Body.Close()
CheckStatus(p) ==
  /\ process = "running"
  /\ call[p].pc = "CheckStatus"
  /\ IF call[p].resp[1].StatusCode # StatusOK
     THEN call' = [call EXCEPT ![p] =
            [@ EXCEPT !.pc = "IncLoad", !.cause = "status error"]]
     ELSE call' = [call EXCEPT ![p] =
            [@ EXCEPT !.pc = "ReadBody", !.deferred = TRUE]]
  /\ UNCHANGED <<s, targetIP, errCnt, tokenFile, process, ch, lastSent, described, authorization, counted>>

\* io.ReadAll(resp.Body) fails, or returns the bytes of the body, one of
\* bodies
ReadBodyFrom(p, bodies) ==
  /\ process = "running"
  /\ call[p].pc = "ReadBody"
  /\ \/ call' = [call EXCEPT ![p] =
          [@ EXCEPT !.pc = "IncLoad", !.readErr = TRUE,
                    !.cause = "read body error"]]
     \/ \E b \in bodies :
          call' = [call EXCEPT ![p] =
            [@ EXCEPT !.pc = "Decoding", !.body = <<b>>]]
  /\ UNCHANGED <<s, targetIP, errCnt, tokenFile, process, ch, lastSent, described, authorization, counted>>

\* io.ReadAll(resp.Body), the endpoint answering with any body of the model
ReadBody(p) == ReadBodyFrom(p, Bodies)

\* s.errCnt++ under a lock that a failed invocation takes and never releases
IncLoadUnderLock(p) ==
  /\ process = "running"
  /\ call[p].pc = "IncLoad"
  /\ \A q \in Procs \ {p} : call[q].pc \notin {"IncStore", "SendError"}
  /\ \A q \in Procs \ {p} : ~(call[q].pc = "Done" /\ call[q].reg # call[q].errAtEntry)
  /\ call' = [call EXCEPT ![p] = [@ EXCEPT !.pc = "IncStore", !.reg = errCnt]]
  /\ UNCHANGED <<s, targetIP, errCnt, tokenFile, process, ch, lastSent, described, authorization, counted>>

\* s.errCnt++, the load
IncLoad(p) ==
  /\ process = "running"
  /\ call[p].pc = "IncLoad"
  /\ call' = [call EXCEPT ![p] = [@ EXCEPT !.pc = "IncStore", !.reg = errCnt]]
  /\ UNCHANGED <<s, targetIP, errCnt, tokenFile, process, ch, lastSent, described, authorization, counted>>

\* s.errCnt++ with the increment lost
IncStoreLost(p) ==
  /\ process = "running"
  /\ call[p].pc = "IncStore"
  /\ errCnt' = call[p].reg
  /\ call' = [call EXCEPT ![p] = [@ EXCEPT !.pc = "SendError"]]
  /\ UNCHANGED <<s, targetIP, tokenFile, process, ch, lastSent, described, authorization, counted>>

\* s.errCnt++, the store
IncStore(p) ==
  /\ process = "running"
  /\ call[p].pc = "IncStore"
  /\ errCnt' = call[p].reg + 1
  /\ counted' = [counted EXCEPT ![call[p].cause] = @ + 1]
  /\ call' = [call EXCEPT ![p] = [@ EXCEPT !.pc = "SendError"]]
  /\ UNCHANGED <<s, targetIP, tokenFile, process, ch, lastSent, described, authorization>>

\* Collect keeping one count per failure class and sending that of the class
SendErrorPerClass(p) ==
  /\ process = "running"
  /\ call[p].pc = "SendError"
  /\ ch' = [ch EXCEPT ![p] =
       Append(@, MustNewConstMetric(s.errors, "counter", counted[call[p].cause],
                                    <<call[p].cause>>))]
  /\ lastSent' = <<counted[call[p].cause]>>
  /\ call' = [call EXCEPT ![p] =
       RunDeferred([@ EXCEPT !.pc = "Done", !.prevSent = lastSent])]
  /\ UNCHANGED <<s, targetIP, errCnt, tokenFile, process, described, authorization, counted>>

\* ch <- MustNewConstMetric(s.errors, CounterValue, s.errCnt, cause); return
SendError(p) ==
  /\ process = "running"
  /\ call[p].pc = "SendError"
  /\ ch' = [ch EXCEPT ![p] =
       Append(@, MustNewConstMetric(s.errors, "counter", errCnt,
                                    <<call[p].cause>>))]
  /\ lastSent' = <<errCnt>>
  /\ call' = [call EXCEPT ![p] =
       RunDeferred([@ EXCEPT !.pc = "Done", !.prevSent = lastSent])]
  /\ UNCHANGED <<s, targetIP, errCnt, tokenFile, process, described, authorization, counted>>

\* summary, err := s.parse(body): on an error the error counter is sent as
\* it stands
Parse(p) ==
  /\ process = "running"
  /\ call[p].pc = "Decoding"
  /\ LET r == parse(call[p].body[1]) IN
     call' = [call EXCEPT ![p] =
       IF r.err
       THEN [@ EXCEPT !.pc = "SendError", !.parses = @ + 1,
                      !.cause = "parse body error"]
       ELSE [@ EXCEPT !.pc = "Mapping", !.parses = @ + 1,
                      !.summary = r.summary]]
  /\ UNCHANGED <<s, targetIP, errCnt, tokenFile, process, ch, lastSent, described, authorization, counted>>

\* the walk over the summary; a panic ends the process
Map(p) ==
  /\ process = "running"
  /\ call[p].pc = "Mapping"
  /\ LET m == MapSummary(s, call[p].summary[1]) IN
     /\ ch' = [ch EXCEPT ![p] = @ \o m.sent]
     /\ call' = [call EXCEPT ![p] =
          RunDeferred([@ EXCEPT !.pc = IF m.panic THEN "Panicked" ELSE "Done"])]
     /\ process' = IF m.panic THEN "panicked" ELSE process
  /\ UNCHANGED <<s, targetIP, errCnt, tokenFile, lastSent, described, authorization, counted>>

\* Collect has returned: its locals are gone
Return(p) ==
  /\ process = "running"
  /\ call[p].pc = "Done"
  /\ call' = [call EXCEPT ![p] = IdleCall]
  /\ ch' = [ch EXCEPT ![p] = <<>>]
  /\ UNCHANGED <<s, targetIP, errCnt, tokenFile, process, lastSent, described, authorization, counted>>

Next ==
  \/ Describe
  \/ RotateToken
  \/ \E p \in Procs : CollectBegin(p)
  \/ \E p \in Procs : ReadToken(p)
  \/ \E p \in Procs : ClientDo(p)
  \/ \E p \in Procs : CheckStatus(p)
  \/ \E p \in Procs : ReadBody(p)
  \/ \E p \in Procs : IncLoad(p)
  \/ \E p \in Procs : IncStore(p)
  \/ \E p \in Procs : SendError(p)
  \/ \E p \in Procs : Parse(p)
  \/ \E p \in Procs : Map(p)
  \/ \E p \in Procs : Return(p)

\* pulls one at a time
Spec == Init /\ [][Next]_vars

(***************************************************************************)
(* Overlapping pulls: the registry calls Collect from one goroutine per    *)
(* gathering, so an invocation may begin while others are under way.  Here *)
(* every p is one invocation of Collect, from its call to its return.      *)
(***************************************************************************)
\* the bodies overlapping pulls are answered with: one that is not JSON, the
\* document of TestDecodingJson, and that document with a runtime group
OverlapBodies ==
  {NotJSON,
   [json |-> TRUE, doc |-> ScenarioDoc],
   [json |-> TRUE,
    doc |-> Put(ScenarioDoc, "node", Put(ScenarioDoc.node, "runtime", <<>>))]}

\* the token file of the overlapping pulls: missing, or holding one token
InitOverlap ==
  /\ Init
  /\ tokenFile \in {<<>>, <<"token-1">>}

\* Collect is called, whatever the other invocations are doing
CollectOverlap(p) ==
  /\ process = "running"
  /\ NewRequest(p)

\* io.ReadAll(resp.Body) of an overlapping pull
ReadBodyOverlap(p) == ReadBodyFrom(p, OverlapBodies)

\* a step of invocation p between the call of Collect and its return
StepOf(p) ==
  \/ ReadToken(p)
  \/ ClientDo(p)
  \/ CheckStatus(p)
  \/ ReadBodyOverlap(p)
  \/ IncLoad(p)
  \/ IncStore(p)
  \/ SendError(p)
  \/ Parse(p)
  \/ Map(p)

NextOverlap ==
  \/ \E p \in Procs : CollectOverlap(p)
  \/ \E p \in Procs : StepOf(p)

\* pulls that overlap
SpecOverlap == InitOverlap /\ [][NextOverlap]_vars

(***************************************************************************)
(* What a pull was given, read off the answers of the endpoint.            *)
(***************************************************************************)
\* client.Do returned an error, the status was not 200, or the body could
\* not be read
FetchFailed(c) ==
  \/ c.doErr # ""
  \/ c.resp # <<>> /\ c.resp[1].StatusCode # StatusOK
  \/ c.readErr

\* the body was read and is not a JSON document
ParseFailed(c) == c.body # <<>> /\ ~c.body[1].json

\* the failure class of a failed fetch
FailureClass(c) ==
  IF c.doErr # "" THEN "request error"
  ELSE IF c.resp[1].StatusCode # StatusOK THEN "status error"
  ELSE "read body error"

\* the elements of a sequence
Range(seq) == {seq[i] : i \in DOMAIN seq}

(***************************************************************************)
(* The leaves of the data model: each with the descriptor it is reported   *)
(* under, its value (<<>> when absent) and the entities that own it.       *)
(***************************************************************************)
NoOwner ==
  [node |-> "", namespace |-> "", pod |-> "", container |-> "", id |-> "",
   model |-> "", make |-> "", name |-> "", volume_name |-> ""]

Leaf(desc, val, owner, optional) ==
  [desc |-> desc, val |-> val, owner |-> owner, optional |-> optional]

\* an optional group: when it is absent each of its leaves is absent
Group(g, absent) == IF g = <<>> THEN absent ELSE g[1]

\* descs: usage_bytes, limit_bytes, inodes, inodes_free, inodes_used
FsLeaves(fs, descs, o) ==
  {Leaf(descs[1], fs.UsedBytes, o, TRUE), Leaf(descs[2], fs.CapacityBytes, o, TRUE),
   Leaf(descs[3], fs.Inodes, o, TRUE), Leaf(descs[4], fs.InodesFree, o, TRUE),
   Leaf(descs[5], fs.InodesUsed, o, TRUE)}

\* descs: usage_nano_cores, usage_core_nano_seconds
CPULeaves(cpu, descs, o) ==
  {Leaf(descs[1], cpu.UsageNanoCores, o, TRUE),
   Leaf(descs[2], cpu.UsageCoreNanoSeconds, o, TRUE)}

\* descs: available_bytes, usage_bytes, working_set_bytes, rss_bytes,
\* page_faults, major_page_faults
MemoryLeaves(mem, descs, o) ==
  {Leaf(descs[1], mem.AvailableBytes, o, TRUE), Leaf(descs[2], mem.UsageBytes, o, TRUE),
   Leaf(descs[3], mem.WorkingSetBytes, o, TRUE), Leaf(descs[4], mem.RSSBytes, o, TRUE),
   Leaf(descs[5], mem.PageFaults, o, TRUE), Leaf(descs[6], mem.MajorPageFaults, o, TRUE)}

\* descs: available_bytes, usage_bytes
SwapLeaves(swap, descs, o) ==
  {Leaf(descs[1], swap.SwapAvailableBytes, o, TRUE),
   Leaf(descs[2], swap.SwapUsageBytes, o, TRUE)}

\* descs: rx_bytes, rx_errors, tx_bytes, tx_errors
InterfaceLeaves(network, descs, o) ==
  UNION {LET i == network.Interfaces[k]
             oi == [o EXCEPT !.name = i.Name]
         IN {Leaf(descs[1], i.RxBytes, oi, TRUE), Leaf(descs[2], i.RxErrors, oi, TRUE),
             Leaf(descs[3], i.TxBytes, oi, TRUE), Leaf(descs[4], i.TxErrors, oi, TRUE)}
         : k \in DOMAIN network.Interfaces}

\* descs: memory_used, memory_total, duty_cycle
AcceleratorLeaves(accelerators, descs, o) ==
  UNION {LET a == accelerators[k]
             oa == [o EXCEPT !.id = a.ID, !.model = a.Model, !.make = a.Make]
         IN {Leaf(descs[1], <<a.MemoryUsed>>, oa, FALSE),
             Leaf(descs[2], <<a.MemoryTotal>>, oa, FALSE),
             Leaf(descs[3], <<a.DutyCycle>>, oa, FALSE)}
         : k \in DOMAIN accelerators}

NoFs == decodeFsStats(<<>>)
NoCPU == decodeCPUStats(<<>>)
NoMemory == decodeMemoryStats(<<>>)
NoSwap == decodeSwapStats(<<>>)

SystemContainerLeaves(d, c, o) ==
  FsLeaves(Group(c.Rootfs, NoFs),
           <<d.nodeSystemContainerRootFsUsedBytes, d.nodeSystemContainerRootFsAvailableBytes,
             d.nodeSystemContainerRootFsInodes, d.nodeSystemContainerRootFsInodesFree,
             d.nodeSystemContainerRootFsInodesUsed>>, o)
  \cup FsLeaves(Group(c.Logs, NoFs),
           <<d.nodeSystemContainerLogsUsedBytes, d.nodeSystemContainerLogsAvailableBytes,
             d.nodeSystemContainerLogsInodes, d.nodeSystemContainerLogsInodesFree,
             d.nodeSystemContainerLogsInodesUsed>>, o)
  \cup CPULeaves(Group(c.CPU, NoCPU),
           <<d.nodeSystemContainerCPUUsageNanoCores,
             d.nodeSystemContainerCPUUsageCoreNanoSeconds>>, o)
  \cup MemoryLeaves(Group(c.Memory, NoMemory),
           <<d.nodeSystemContainerMemoryAvailableBytes, d.nodeSystemContainerMemoryUsageBytes,
             d.nodeSystemContainerMemoryWorkingSetBytes, d.nodeSystemContainerMemoryRSSBytes,
             d.nodeSystemContainerMemoryPageFaults,
             d.nodeSystemContainerMemoryMajorPageFaults>>, o)
  \cup SwapLeaves(Group(c.Swap, NoSwap),
           <<d.nodeSystemContainerSwapAvailableBytes, d.nodeSystemContainerSwapUsageBytes>>, o)
  \cup AcceleratorLeaves(c.Accelerators,
           <<d.nodeSystemContainerAcceleratorMemoryUsed,
             d.nodeSystemContainerAcceleratorMemoryTotal,
             d.nodeSystemContainerAcceleratorDutyCycle>>, o)

ContainerLeaves(d, c, o) ==
  FsLeaves(Group(c.Rootfs, NoFs),
           <<d.containerRootFsUsedBytes, d.containerRootFsAvailableBytes,
             d.containerRootFsInodes, d.containerRootFsInodesFree,
             d.containerRootFsInodesUsed>>, o)
  \cup FsLeaves(Group(c.Logs, NoFs),
           <<d.containerLogsUsedBytes, d.containerLogsAvailableBytes,
             d.containerLogsInodes, d.containerLogsInodesFree,
             d.containerLogsInodesUsed>>, o)
  \cup CPULeaves(Group(c.CPU, NoCPU),
           <<d.containerCPUUsageNanoCores, d.containerCPUUsageCoreNanoSeconds>>, o)
  \cup MemoryLeaves(Group(c.Memory, NoMemory),
           <<d.containerMemoryAvailableBytes, d.containerMemoryUsageBytes,
             d.containerMemoryWorkingSetBytes, d.containerMemoryRSSBytes,
             d.containerMemoryPageFaults, d.containerMemoryMajorPageFaults>>, o)
  \cup SwapLeaves(Group(c.Swap, NoSwap),
           <<d.containerSwapAvailableBytes, d.containerSwapUsageBytes>>, o)
  \cup AcceleratorLeaves(c.Accelerators,
           <<d.containerAcceleratorMemoryUsed, d.containerAcceleratorMemoryTotal,
             d.containerAcceleratorDutyCycle>>, o)

VolumeLeaves(d, v, o) ==
  FsLeaves(v.FsStats,
           <<d.podVolumeUsedBytes, d.podVolumeAvailableBytes, d.podVolumeInodes,
             d.podVolumeInodesFree, d.podVolumeInodesUsed>>, o)
  \cup {Leaf(d.podVolumeHealthStatus,
             IF v.VolumeHealthStats = <<>> THEN <<>>
             ELSE IF v.VolumeHealthStats[1].Abnormal THEN <<1>> ELSE <<0>>, o, TRUE)}

PodLeaves(d, pod, on) ==
  LET o == [on EXCEPT !.namespace = pod.PodRef.Namespace, !.pod = pod.PodRef.Name] IN
  CPULeaves(Group(pod.CPU, NoCPU),
            <<d.podCPUUsageNanoCores, d.podCPUUsageCoreNanoSeconds>>, o)
  \cup MemoryLeaves(Group(pod.Memory, NoMemory),
            <<d.podMemoryAvailableBytes, d.podMemoryUsageBytes, d.podMemoryWorkingSetBytes,
              d.podMemoryRSSBytes, d.podMemoryPageFaults, d.podMemoryMajorPageFaults>>, o)
  \cup SwapLeaves(Group(pod.Swap, NoSwap),
            <<d.podSwapAvailableBytes, d.podSwapUsageBytes>>, o)
  \cup FsLeaves(Group(pod.EphemeralStorage, NoFs),
            <<d.podEphemeralStorageUsedBytes, d.podEphemeralStorageAvailableBytes,
              d.podEphemeralStorageInodes, d.podEphemeralStorageInodesFree,
              d.podEphemeralStorageInodesUsed>>, o)
  \cup {Leaf(d.podProcessCount,
             Group(pod.ProcessStats, decodeProcessStats(<<>>)).ProcessCount, o, TRUE)}
  \cup UNION {VolumeLeaves(d, pod.VolumeStats[k],
                           [o EXCEPT !.volume_name = pod.VolumeStats[k].Name])
              : k \in DOMAIN pod.VolumeStats}
  \cup InterfaceLeaves(Group(pod.Network, decodeNetworkStats(<<>>)),
            <<d.podInterfaceRxBytes, d.podInterfaceRxErrors, d.podInterfaceTxBytes,
              d.podInterfaceTxErrors>>, o)
  \cup UNION {ContainerLeaves(d, pod.Containers[k],
                              [o EXCEPT !.container = pod.Containers[k].Name])
              : k \in DOMAIN pod.Containers}

NodeLeaves(d, node, o) ==
  LET runtime == Group(node.Runtime, decodeRuntimeStats(<<>>))
      rlimit == Group(node.Rlimit, decodeRlimitStats(<<>>))
  IN
  FsLeaves(Group(node.Fs, NoFs),
           <<d.nodeFsUsedBytes, d.nodeFsAvailableBytes, d.nodeFsInodes,
             d.nodeFsInodesFree, d.nodeFsInodesUsed>>, o)
  \cup FsLeaves(Group(runtime.ImageFs, NoFs),
           <<d.nodeRuntimeImageFsUsedBytes, d.nodeRuntimeImageFsAvailableBytes,
             d.nodeRuntimeImageFsInodes, d.nodeRuntimeImageFsInodesFree,
             d.nodeRuntimeImageFsInodesUsed>>, o)
  \cup FsLeaves(Group(runtime.ContainerFs, NoFs),
           <<d.nodeRuntimeContainerFsUsedBytes, d.nodeRuntimeContainerFsAvailableBytes,
             d.nodeRuntimeContainerFsInodes, d.nodeRuntimeContainerFsInodesFree,
             d.nodeRuntimeContainerFsInodesUsed>>, o)
  \cup CPULeaves(Group(node.CPU, NoCPU),
           <<d.nodeCPUUsageNanoCores, d.nodeCPUUsageCoreNanoSeconds>>, o)
  \cup MemoryLeaves(Group(node.Memory, NoMemory),
           <<d.nodeMemoryAvailableBytes, d.nodeMemoryUsageBytes, d.nodeMemoryWorkingSetBytes,
             d.nodeMemoryRSSBytes, d.nodeMemoryPageFaults, d.nodeMemoryMajorPageFaults>>, o)
  \cup SwapLeaves(Group(node.Swap, NoSwap),
           <<d.nodeSwapAvailableBytes, d.nodeSwapUsageBytes>>, o)
  \cup {Leaf(d.nodeRLimitMaxPID, rlimit.MaxPID, o, TRUE),
        Leaf(d.nodeRLimitNumOfRunningProcess, rlimit.NumOfRunningProcesses, o, TRUE)}
  \cup InterfaceLeaves(Group(node.Network, decodeNetworkStats(<<>>)),
           <<d.nodeInterfaceRxBytes, d.nodeInterfaceRxErrors, d.nodeInterfaceTxBytes,
             d.nodeInterfaceTxErrors>>, o)
  \cup UNION {SystemContainerLeaves(d, node.SystemContainers[k],
                                    [o EXCEPT !.container = node.SystemContainers[k].Name])
              : k \in DOMAIN node.SystemContainers}

\* every leaf of a decoded summary
Leaves(d, summary) ==
  LET o == [NoOwner EXCEPT !.node = summary.Node.NodeName] IN
  NodeLeaves(d, summary.Node, o)
  \cup UNION {PodLeaves(d, summary.Pods[k], o) : k \in DOMAIN summary.Pods}

\* the label values the schema of the leaf's descriptor asks for
SchemaValues(leaf) ==
  [i \in 1..Len(leaf.desc.variableLabels) |-> leaf.owner[leaf.desc.variableLabels[i]]]

\* the positions in a sequence of metrics that report the leaf
Reports(metrics, leaf) ==
  {i \in DOMAIN metrics : /\ metrics[i].desc = leaf.desc
                          /\ metrics[i].labelValues = SchemaValues(leaf)}

\* the pull of c returned after mapping a summary
Mapped(c) == c.pc = "Done" /\ c.summary # <<>>

(***************************************************************************)
(* The error counter.                                                      *)
(***************************************************************************)
\* C1: across sequential pulls the value sent with the error counter never
\* decreases, and every failed pull (transport, status, body-read or parse
\* failure) sends the value the counter had before the pull plus one.
C1_EveryFailedPullCountsOnce ==
  \A p \in Procs :
    LET c == call[p] IN
    (c.pc = "Done" /\ (FetchFailed(c) \/ ParseFailed(c))) =>
       /\ ch[p] # <<>>
       /\ ch[p][Len(ch[p])].desc = s.errors
       /\ ch[p][Len(ch[p])].value = c.errAtEntry + 1
       /\ c.prevSent # <<>> => ch[p][Len(ch[p])].value >= c.prevSent[1]

\* C2: a successful pull sends the error counter at its current value first
\* and the mapped observations after it, so every pull that returns after a
\* fetch attempt has sent the error counter.
C2_ErrorCounterSentOnEveryPull ==
  \A p \in Procs :
    LET c == call[p] IN
    (c.pc = "Done" /\ c.gets > 0) =>
       /\ ch[p] # <<>>
       /\ ch[p][1].desc = s.errors
       /\ ch[p][1].value = errCnt
       /\ Mapped(c) => Tail(ch[p]) = MapSummary(s, c.summary[1]).sent

\* C3: after a successful pull every optional leaf of the summary that is
\* present (also at 0) is reported by exactly one observation carrying its
\* value, and a leaf that is absent, alone or with its group, by none.
C3_OneObservationPerPresentLeaf ==
  \A p \in Procs :
    Mapped(call[p]) =>
      \A leaf \in {l \in Leaves(s, call[p].summary[1]) : l.optional} :
        IF leaf.val # <<>>
        THEN /\ Cardinality(Reports(ch[p], leaf)) = 1
             /\ \A i \in Reports(ch[p], leaf) : ch[p][i].value = leaf.val[1]
        ELSE Reports(ch[p], leaf) = {}

\* C4: every observation sent has as many label values as its descriptor has
\* label names, the i-th value being the value of the i-th name: the failure
\* class for the error counter, the owners of the leaf for a data metric.
C4_LabelValuesFollowTheSchema ==
  \A p \in Procs : \A i \in DOMAIN ch[p] :
    LET m == ch[p][i] IN
    /\ Len(m.labelValues) = Len(m.desc.variableLabels)
    /\ \/ m.desc = s.errors /\ m.labelValues = <<call[p].cause>>
       \/ \E leaf \in Leaves(s, call[p].summary[1]) :
            /\ leaf.desc = m.desc
            /\ leaf.val = <<m.value>>
            /\ m.labelValues = SchemaValues(leaf)

\* C5: a pull whose fetch failed has incremented the error counter and sent
\* one observation only: the error counter at the incremented value, labelled
\* "request error" (a timeout included), "status error" or "read body error".
C5_FetchFailureSendsOnlyTheCounter ==
  \A p \in Procs :
    LET c == call[p] IN
    (c.pc = "Done" /\ FetchFailed(c)) =>
       /\ errCnt = c.errAtEntry + 1
       /\ ch[p] = <<[desc |-> s.errors, valueType |-> "counter",
                     value |-> c.errAtEntry + 1,
                     labelValues |-> <<FailureClass(c)>>]>>

C5_Witness ==
  \E p \in Procs :
    /\ call[p].pc = "Done"
    /\ call[p].doErr = "Client.Timeout exceeded"
    /\ call[p].errAtEntry = 1

\* C6: a pull whose body is not a JSON document never holds a summary, never
\* maps, sends no data observation, and has sent on return one observation
\* only, the error counter labelled "parse body error".
C6_ParseFailureSendsOnlyTheCounter ==
  \A p \in Procs :
    LET c == call[p] IN
    ParseFailed(c) =>
       /\ c.summary = <<>>
       /\ c.pc \notin {"Mapping", "Panicked"}
       /\ \A i \in DOMAIN ch[p] : ch[p][i].desc = s.errors
       /\ c.pc = "Done" =>
            /\ Len(ch[p]) = 1
            /\ ch[p][1].labelValues = <<"parse body error">>

C6_Witness ==
  \E p \in Procs :
    /\ call[p].pc = "Done"
    /\ ParseFailed(call[p])
    /\ call[p].parses = 1

\* C7: a parse failure increments the error counter before it is sent: the
\* value sent with "parse body error" is the value before the pull plus one.
C7_ParseFailureIncrementsTheCounter ==
  \A p \in Procs :
    LET c == call[p] IN
    (c.pc = "Done" /\ ParseFailed(c)) =>
       /\ errCnt = c.errAtEntry + 1
       /\ \A i \in DOMAIN ch[p] :
            ch[p][i].labelValues = <<"parse body error">> =>
              ch[p][i].value = c.errAtEntry + 1

(***************************************************************************)
(* Describe and Collect.                                                   *)
(***************************************************************************)
\* C8: the descriptor of every observation Collect sends, data metric or
\* error counter, is among the descriptors Describe sends.
C8_EveryObservationIsDescribed ==
  described # <<>> =>
    \A p \in Procs : \A i \in DOMAIN ch[p] : ch[p][i].desc \in Range(described)

C8_Witness ==
  /\ described # <<>>
  /\ \E p \in Procs : call[p].pc = "Done" /\ Len(ch[p]) >= 100
  /\ lastSent # <<>>

\* the descriptors the Scraper was built with
Catalog == {NewScraper[f] : f \in DOMAIN NewScraper}

\* C9: every call of Describe sends the whole catalog, each descriptor once,
\* whatever pulls ran before it, and changes neither the error counter nor
\* any pull.
C9_DescribeSendsTheFixedCatalog ==
  [][described' # described =>
       /\ Range(described') = Catalog
       /\ Len(described') = Cardinality(Catalog)
       /\ UNCHANGED <<s, errCnt, process, call, ch, lastSent>>]_vars

C9_Witness ==
  /\ described # <<>>
  /\ errCnt > 0
  /\ \E p \in Procs : Mapped(call[p]) /\ ch[p] # <<>>

\* C10: s.parse is called, and Decoding or Mapping entered, only in a pull
\* whose fetch gave status 200 and a body that was read; a pull whose fetch
\* failed returns without having called it.
C10_DecoderOnlyAfterAFullFetch ==
  \A p \in Procs :
    LET c == call[p] IN
    /\ (c.parses > 0 \/ c.pc \in {"Decoding", "Mapping"} \/ c.summary # <<>>) =>
          /\ c.doErr = ""
          /\ c.resp # <<>>
          /\ c.resp[1].StatusCode = StatusOK
          /\ ~c.readErr
          /\ c.body # <<>>
    /\ FetchFailed(c) => c.parses = 0 /\ c.body = <<>>

C10_Witness ==
  \E p \in Procs :
    /\ call[p].pc = "Done"
    /\ call[p].resp # <<>>
    /\ call[p].resp[1].StatusCode = 503
    /\ call[p].parses = 0
(***************************************************************************)
(* The failures ahead of the fetch, and the fetch itself.                  *)
(***************************************************************************)
\* C11: a token read that fails ends the process inside that invocation: the
\* invocation has issued no GET and sent nothing, the error counter is as it
\* was, no invocation gets past its token read without a token, and once the
\* process has exited nothing runs any more.
C11_TokenReadFailureIsFatal ==
  [][/\ (process = "running" /\ process' = "exited") =>
          /\ tokenFile = <<>>
          /\ \E p \in Procs : /\ call[p].pc = "ReadToken"
                               /\ call'[p].gets = 0
                               /\ ch'[p] = <<>>
          /\ UNCHANGED <<errCnt, lastSent, call, ch>>
     /\ \A p \in Procs :
          (call[p].pc = "ReadToken" /\ call'[p].pc # "ReadToken") =>
             /\ tokenFile # <<>>
             /\ call'[p].token = tokenFile[1]
     /\ process = "exited" => UNCHANGED vars]_vars

\* pulls have failed, then the token file was removed and the next pull
\* ended the process
C11_Witness ==
  /\ process = "exited"
  /\ errCnt > 0
  /\ \E p \in Procs : call[p].pc = "ReadToken" /\ call[p].gets = 0 /\ ch[p] = <<>>

\* C12: with a target address no request can be built for, every invocation
\* returns having sent nothing, read no token and issued no GET, the error
\* counter is never changed nor sent, the process keeps running, and the
\* invocation can return and the next pull can begin.
C12_RequestConstructionFailureIsSilent ==
  ~ValidURL(targetIP) =>
    /\ process = "running"
    /\ errCnt = 0
    /\ lastSent = <<>>
    /\ \A p \in Procs :
         LET c == call[p] IN
         /\ c.pc \in {"Idle", "Done"}
         /\ ch[p] = <<>>
         /\ c.token = ""
         /\ c.gets = 0
         /\ c.errAtEntry = errCnt
         /\ c.pc = "Done" => ENABLED Return(p)
    /\ (\A p \in Procs : call[p].pc = "Idle") => ENABLED CollectBegin(1)

\* a pull has ended at the request construction
C12_Witness ==
  /\ ~ValidURL(targetIP)
  /\ call[1].pc = "Done"
  /\ ch[1] = <<>>
  /\ process = "running"

\* C13 as stated: every invocation that returns has performed exactly one GET.
C13_ExactlyOneGetPerInvocation ==
  \A p \in Procs : call[p].pc = "Done" => call[p].gets = 1

\* C13, amended: an invocation never performs more than one GET; it has
\* performed exactly one once it is past the token read, whatever the GET
\* returned, and none when it ended at the request construction or at the
\* token read.
C13_OneGetOnceTheRequestIsSent ==
  \A p \in Procs :
    LET c == call[p] IN
    /\ c.gets <= 1
    /\ c.pc \in {"Idle", "ReadToken"} => c.gets = 0
    /\ c.pc \in {"Fetching", "CheckStatus", "ReadBody", "IncLoad", "IncStore",
                  "SendError", "Decoding", "Mapping", "Panicked"} => c.gets = 1
    /\ c.pc = "Done" => c.gets = IF ValidURL(targetIP) THEN 1 ELSE 0

\* a pull whose GET failed has returned without a second GET
C13_Witness ==
  \E p \in Procs : /\ call[p].pc = "Done"
                    /\ call[p].doErr # ""
                    /\ call[p].gets = 1
                    /\ ch[p] # <<>>

(***************************************************************************)
(* Overlapping pulls.                                                      *)
(***************************************************************************)
\* how far an invocation is: every step of Collect moves it forward
Rank(pc) ==
  CASE pc = "Idle" -> 0
    [] pc = "ReadToken" -> 1
    [] pc = "Fetching" -> 2
    [] pc = "CheckStatus" -> 3
    [] pc = "ReadBody" -> 4
    [] pc = "Decoding" -> 5
    [] pc = "Mapping" -> 6
    [] pc = "IncLoad" -> 7
    [] pc = "IncStore" -> 8
    [] pc = "SendError" -> 9
    [] OTHER -> 10

\* C14: while the process runs, every invocation that has begun and not yet
\* returned has a step of its own it can take, whatever the other invocations
\* are doing, and every step moves the invocation forward and leaves the
\* locals of the others alone: no invocation ever waits on another, and each
\* returns after a bounded number of its own steps.
C14_OverlappingPullsNeverWait ==
  /\ [](process = "running" =>
          \A p \in Procs :
            call[p].pc \notin {"Idle", "Done", "Panicked"} => ENABLED StepOf(p))
  /\ [][\A p \in Procs :
          call'[p] # call[p] =>
            /\ Rank(call'[p].pc) > Rank(call[p].pc)
            /\ \A q \in Procs \ {p} : call'[q] = call[q] /\ ch'[q] = ch[q]]_vars

\* every invocation has returned, two after a failed fetch that they
\* counted while the others were under way
C14_Witness ==
  /\ process = "running"
  /\ \A p \in Procs : call[p].pc = "Done"
  /\ \E p, q \in Procs : /\ p # q
                          /\ FetchFailed(call[p]) /\ FetchFailed(call[q])
                          /\ call[p].errAtEntry = call[q].errAtEntry
  /\ \E p \in Procs : Mapped(call[p])

\* C15: with overlapping pulls the stored error counter never goes down, and
\* no value sent with the error counter is lower than the one sent before.
C15_CounterMonotonicUnderOverlap ==
  [][/\ errCnt' >= errCnt
     /\ (lastSent # <<>> /\ lastSent' # <<>>) => lastSent'[1] >= lastSent[1]]_vars

\* C16: when the only pulls so far are N pulls that all began at counter
\* value c and all failed at the fetch, the stored counter is at least
\* c + N - 1.
C16_RaceLosesAtMostOne ==
  \A S \in SUBSET Procs \ {{}} :
    LET c == call[CHOOSE p \in S : TRUE].errAtEntry IN
    (/\ \A p \in S : /\ call[p].pc = "Done"
                       /\ FetchFailed(call[p])
                       /\ call[p].errAtEntry = c
     /\ \A q \in Procs \ S : call[q].pc = "Idle")
    => errCnt >= c + Cardinality(S) - 1

(***************************************************************************)
(* What carries over from one pull to the next.                            *)
(***************************************************************************)
\* C17: the stored error counter changes only by one, upwards, in the
\* increment of a pull whose fetch failed, so the steps of a successful pull
\* leave it alone and nothing resets or lowers it; the Scraper is otherwise
\* never written, and an invocation that has returned leaves nothing behind.
C17_CounterChangesOnlyByIncrement ==
  [][/\ errCnt' # errCnt =>
          /\ errCnt' = errCnt + 1
          /\ \E p \in Procs : /\ call[p].pc = "IncStore"
                               /\ call'[p].pc = "SendError"
                               /\ FetchFailed(call[p])
     /\ s' = s
     /\ targetIP' = targetIP
     /\ \A p \in Procs :
          call'[p].pc = "Idle" => call'[p] = IdleCall /\ ch'[p] = <<>>]_vars

(***************************************************************************)
(* Decoding: the document against the decoded summary.                     *)
(***************************************************************************)
\* the optional leaves of each group: the key of the document and the field
\* of the summary
FsFields ==
  <<<<"usedBytes", "UsedBytes">>, <<"capacityBytes", "CapacityBytes">>,
    <<"inodes", "Inodes">>, <<"inodesFree", "InodesFree">>,
    <<"inodesUsed", "InodesUsed">>>>
CPUFields ==
  <<<<"usageNanoCores", "UsageNanoCores">>,
    <<"usageCoreNanoSeconds", "UsageCoreNanoSeconds">>>>
MemoryFields ==
  <<<<"availableBytes", "AvailableBytes">>, <<"usageBytes", "UsageBytes">>,
    <<"workingSetBytes", "WorkingSetBytes">>, <<"rssBytes", "RSSBytes">>,
    <<"pageFaults", "PageFaults">>, <<"majorPageFaults", "MajorPageFaults">>>>
SwapFields ==
  <<<<"swapAvailableBytes", "SwapAvailableBytes">>,
    <<"swapUsageBytes", "SwapUsageBytes">>>>
RlimitFields == <<<<"maxpid", "MaxPID">>, <<"curproc", "NumOfRunningProcesses">>>>
InterfaceFields ==
  <<<<"rxBytes", "RxBytes">>, <<"rxErrors", "RxErrors">>,
    <<"txBytes", "TxBytes">>, <<"txErrors", "TxErrors">>>>
ProcessFields == <<<<"process_count", "ProcessCount">>>>

\* every leaf of the group is set to the document's value when the document
\* gives it and unset when it does not
LeavesPreserved(o, st, fields) ==
  \A i \in DOMAIN fields :
    LET k == fields[i][1]
        f == fields[i][2]
    IN IF k \in DOMAIN o THEN st[f] = <<o[k]>> ELSE st[f] = <<>>

\* the group under key k is set, with its leaves preserved, exactly when the
\* document gives it
GroupPreserved(o, k, g, fields) ==
  IF k \in DOMAIN o
  THEN g # <<>> /\ LeavesPreserved(o[k], g[1], fields)
  ELSE g = <<>>

NetworkPreserved(o, g) ==
  IF "network" \in DOMAIN o
  THEN /\ g # <<>>
       /\ LET ifs == SliceField(o["network"], "interfaces") IN
          /\ Len(g[1].Interfaces) = Len(ifs)
          /\ \A i \in DOMAIN ifs :
               LeavesPreserved(ifs[i], g[1].Interfaces[i], InterfaceFields)
  ELSE g = <<>>

ContainerPreserved(o, c) ==
  /\ GroupPreserved(o, "rootfs", c.Rootfs, FsFields)
  /\ GroupPreserved(o, "logs", c.Logs, FsFields)
  /\ GroupPreserved(o, "cpu", c.CPU, CPUFields)
  /\ GroupPreserved(o, "memory", c.Memory, MemoryFields)
  /\ GroupPreserved(o, "swap", c.Swap, SwapFields)
  /\ Len(c.Accelerators) = Len(SliceField(o, "accelerators"))

VolumePreserved(o, v) ==
  /\ LeavesPreserved(o, v.FsStats, FsFields)
  /\ v.VolumeHealthStats # <<>> <=> "volumeHealthStats" \in DOMAIN o

PodPreserved(o, pod) ==
  /\ GroupPreserved(o, "cpu", pod.CPU, CPUFields)
  /\ GroupPreserved(o, "memory", pod.Memory, MemoryFields)
  /\ GroupPreserved(o, "swap", pod.Swap, SwapFields)
  /\ GroupPreserved(o, "ephemeral-storage", pod.EphemeralStorage, FsFields)
  /\ GroupPreserved(o, "process_stats", pod.ProcessStats, ProcessFields)
  /\ NetworkPreserved(o, pod.Network)
  /\ Len(pod.VolumeStats) = Len(SliceField(o, "volume"))
  /\ \A i \in DOMAIN pod.VolumeStats : VolumePreserved(o["volume"][i], pod.VolumeStats[i])
  /\ Len(pod.Containers) = Len(SliceField(o, "containers"))
  /\ \A i \in DOMAIN pod.Containers : ContainerPreserved(o["containers"][i], pod.Containers[i])

NodePreserved(o, node) ==
  /\ GroupPreserved(o, "fs", node.Fs, FsFields)
  /\ IF "runtime" \in DOMAIN o
     THEN /\ node.Runtime # <<>>
          /\ GroupPreserved(o["runtime"], "imageFs", node.Runtime[1].ImageFs, FsFields)
          /\ GroupPreserved(o["runtime"], "containerFs", node.Runtime[1].ContainerFs, FsFields)
     ELSE node.Runtime = <<>>
  /\ GroupPreserved(o, "cpu", node.CPU, CPUFields)
  /\ GroupPreserved(o, "memory", node.Memory, MemoryFields)
  /\ GroupPreserved(o, "swap", node.Swap, SwapFields)
  /\ GroupPreserved(o, "rlimit", node.Rlimit, RlimitFields)
  /\ NetworkPreserved(o, node.Network)
  /\ Len(node.SystemContainers) = Len(SliceField(o, "systemContainers"))
  /\ \A i \in DOMAIN node.SystemContainers :
       ContainerPreserved(o["systemContainers"][i], node.SystemContainers[i])

SummaryPreserved(doc, summary) ==
  /\ NodePreserved(IF "node" \in DOMAIN doc THEN doc["node"] ELSE <<>>, summary.Node)
  /\ Len(summary.Pods) = Len(SliceField(doc, "pods"))
  /\ \A i \in DOMAIN summary.Pods : PodPreserved(doc["pods"][i], summary.Pods[i])

Walked(c) == c.summary # <<>> /\ c.pc \in {"Done", "Panicked"}

\* the descriptors of the container-fs group
ContainerFsDescs ==
  {s.containerRootFsUsedBytes, s.containerRootFsAvailableBytes,
   s.containerRootFsInodes, s.containerRootFsInodesFree,
   s.containerRootFsInodesUsed}

\* the rootfs group is given with usedBytes and capacityBytes and no other
\* leaf
OnlyUsedAndCapacity(rootfs) ==
  /\ rootfs # <<>>
  /\ rootfs[1].UsedBytes # <<>>
  /\ rootfs[1].CapacityBytes # <<>>
  /\ rootfs[1].Inodes = <<>>
  /\ rootfs[1].InodesFree = <<>>
  /\ rootfs[1].InodesUsed = <<>>

\* C19: once a pull has ended on a decoded document, every container of a
\* pod whose rootfs has usedBytes and capacityBytes only is reported by
\* exactly two container-fs observations, usage_bytes and limit_bytes at
\* those values, both labelled <<node, namespace, pod, container>>, and by no
\* other observation of the container-fs group.
C19_TwoContainerFsObservations ==
  \A p \in Procs :
    Walked(call[p]) =>
      LET summary == call[p].summary[1] IN
      \A i \in DOMAIN summary.Pods :
        \A j \in DOMAIN summary.Pods[i].Containers :
          LET pod == summary.Pods[i]
              c == pod.Containers[j]
              lv == <<summary.Node.NodeName, pod.PodRef.Namespace,
                      pod.PodRef.Name, c.Name>>
              obs == {k \in DOMAIN ch[p] :
                        /\ ch[p][k].desc \in ContainerFsDescs
                        /\ c.Name \in Range(ch[p][k].labelValues)}
          IN OnlyUsedAndCapacity(c.Rootfs) =>
               /\ Cardinality(obs) = 2
               /\ \A k \in obs : ch[p][k].labelValues = lv
               /\ \E k \in obs : /\ ch[p][k].desc = s.containerRootFsUsedBytes
                                  /\ ch[p][k].value = c.Rootfs[1].UsedBytes[1]
               /\ \E k \in obs : /\ ch[p][k].desc = s.containerRootFsAvailableBytes
                                  /\ ch[p][k].value = c.Rootfs[1].CapacityBytes[1]

\* the observations of a pull that carry the id of an accelerator entry
\* under one of descs
AcceleratorObservations(metrics, descs, a) ==
  {k \in DOMAIN metrics : /\ metrics[k].desc \in Range(descs)
                          /\ a.ID \in Range(metrics[k].labelValues)}

\* descs: memory_used, memory_total, duty_cycle.  The entry is reported by
\* three observations, one under each descriptor at the entry's value, all
\* with the same label values, its id, model and make among them.
ThreePerAccelerator(metrics, descs, a) ==
  LET obs == AcceleratorObservations(metrics, descs, a) IN
  /\ Cardinality(obs) = 3
  /\ \E k \in obs : metrics[k].desc = descs[1] /\ metrics[k].value = a.MemoryUsed
  /\ \E k \in obs : metrics[k].desc = descs[2] /\ metrics[k].value = a.MemoryTotal
  /\ \E k \in obs : metrics[k].desc = descs[3] /\ metrics[k].value = a.DutyCycle
  /\ \A k, l \in obs : metrics[k].labelValues = metrics[l].labelValues
  /\ \A k \in obs : {a.ID, a.Model, a.Make} \subseteq Range(metrics[k].labelValues)

\* C20: once a pull has ended on a decoded document, every accelerator
\* entry of a system container and of a container of a pod is reported by
\* exactly three observations (memory_used, memory_total, duty_cycle),
\* whatever its values, with one label tuple that holds its id, model and
\* make.
C20_ThreeObservationsPerAccelerator ==
  \A p \in Procs :
    Walked(call[p]) =>
      LET summary == call[p].summary[1] IN
      /\ \A i \in DOMAIN summary.Node.SystemContainers :
           \A j \in DOMAIN summary.Node.SystemContainers[i].Accelerators :
             ThreePerAccelerator(ch[p],
               <<s.nodeSystemContainerAcceleratorMemoryUsed,
                 s.nodeSystemContainerAcceleratorMemoryTotal,
                 s.nodeSystemContainerAcceleratorDutyCycle>>,
               summary.Node.SystemContainers[i].Accelerators[j])
      /\ \A i \in DOMAIN summary.Pods :
           \A j \in DOMAIN summary.Pods[i].Containers :
             \A k \in DOMAIN summary.Pods[i].Containers[j].Accelerators :
               ThreePerAccelerator(ch[p],
                 <<s.containerAcceleratorMemoryUsed,
                   s.containerAcceleratorMemoryTotal,
                   s.containerAcceleratorDutyCycle>>,
                 summary.Pods[i].Containers[j].Accelerators[k])

(***************************************************************************)
(* The token.                                                              *)
(***************************************************************************)
\* C21: the request of an invocation is sent with the content the token file
\* has when that invocation reads it, as "Bearer <token>", whatever an
\* earlier request was sent with; the invocation keeps that token until it
\* returns.
C21_TokenReadAnewOnEveryPull ==
  [][\A p \in Procs :
       /\ call'[p].gets > call[p].gets =>
            /\ tokenFile # <<>>
            /\ call'[p].token = tokenFile[1]
            /\ authorization' # <<>>
            /\ authorization'[Len(authorization')] = Bearer(tokenFile[1])
       /\ (call[p].gets = 1 /\ call'[p].pc # "Idle") =>
            call'[p].token = call[p].token]_vars

\* a request was sent with one token, the token file was replaced, and the
\* request of the pull under way carries the new token
C21_Witness ==
  /\ authorization = <<Bearer("token-1"), Bearer("token-2")>>
  /\ tokenFile = <<"token-2">>
  /\ \E p \in Procs : call[p].pc = "Fetching" /\ call[p].token = "token-2"

(***************************************************************************)
(* The order of the walk.                                                  *)
(***************************************************************************)
\* the descriptors of the observations of a system container
SystemContainerDescs ==
  {l.desc : l \in SystemContainerLeaves(NewScraper,
                     decodeContainerStats(FullSystemContainer), NoOwner)}

\* the descriptors of the node's own groups: Fs, Runtime, CPU, Memory, Swap,
\* Rlimit and the network interfaces
NodeGroupDescs ==
  {l.desc : l \in NodeLeaves(NewScraper,
                     decodeNodeStats(Put(FullNode, "systemContainers", <<>>)),
                     NoOwner)}

\* the descriptors of the observations of a pod, its volumes and containers
PodScopeDescs ==
  {l.desc : l \in PodLeaves(NewScraper, decodePodStats(FullPod), NoOwner)}

\* the place of a descriptor in an order of the three kinds
Stage(desc, order) == CHOOSE k \in DOMAIN order : desc \in order[k]

\* the observations come kind by kind in the order given: none of a later
\* kind is followed by one of an earlier kind
InOrder(metrics, order) ==
  \A i \in 1..(Len(metrics) - 1) :
    Stage(metrics[i].desc, order) <= Stage(metrics[i + 1].desc, order)

\* C22 as stated: on a pull that returned after the walk, every node-scope
\* observation precedes every pod-scope one, and the system-container
\* observations come after those of the node's own groups.
C22_SystemContainersAfterTheNodeGroups ==
  \A p \in Procs :
    Mapped(call[p]) =>
      InOrder(ch[p], <<NodeGroupDescs, SystemContainerDescs, PodScopeDescs>>)

\* C22 amended: on a pull that returned after the walk, every node-scope
\* observation precedes every pod-scope one, and the system-container
\* observations come before those of the node's own groups.
C22_SystemContainersBeforeTheNodeGroups ==
  \A p \in Procs :
    Mapped(call[p]) =>
      InOrder(ch[p], <<SystemContainerDescs, NodeGroupDescs, PodScopeDescs>>)

\* a returned pull with observations of all three kinds, every node group
\* among them
C22_Witness ==
  \E p \in Procs :
    /\ Mapped(call[p])
    /\ NodeGroupDescs \ {s.nodeMemoryMajorPageFaults}
         \subseteq {ch[p][i].desc : i \in DOMAIN ch[p]}
    /\ \E i, j \in DOMAIN ch[p] : /\ ch[p][i].desc \in SystemContainerDescs
                                  /\ ch[p][j].desc \in PodScopeDescs

(***************************************************************************)
(* The health of a volume.                                                 *)
(***************************************************************************)
\* the descriptors of the Fs group of a pod volume
VolumeFsDescs ==
  {s.podVolumeUsedBytes, s.podVolumeAvailableBytes, s.podVolumeInodes,
   s.podVolumeInodesFree, s.podVolumeInodesUsed}

\* the volume is reported as the claim says: a health_status observation
\* with label values lv exactly when its health is given, one only, at 1 for
\* abnormal and 0 otherwise, after the Fs observations of the volume
HealthReported(metrics, podVolume, lv) ==
  LET health == {k \in DOMAIN metrics : /\ metrics[k].desc = s.podVolumeHealthStatus
                                        /\ metrics[k].labelValues = lv}
      fs == {k \in DOMAIN metrics : /\ metrics[k].desc \in VolumeFsDescs
                                    /\ metrics[k].labelValues = lv}
  IN /\ (podVolume.VolumeHealthStats # <<>>) <=> (health # {})
     /\ Cardinality(health) <= 1
     /\ \A k \in health :
          /\ metrics[k].value =
               (IF podVolume.VolumeHealthStats[1].Abnormal THEN 1 ELSE 0)
          /\ \A l \in fs : l < k

\* C23: once a pull has ended on a decoded document, every volume of every
\* pod has a health_status observation exactly when its health is given,
\* at 1 when abnormal and 0 when not, sent after the Fs observations of that
\* volume and labelled <<node, namespace, pod, volume name>>; no other
\* health_status observation is sent.
C23_HealthStatusIffHealthGiven ==
  \A p \in Procs :
    Walked(call[p]) =>
      LET summary == call[p].summary[1] IN
      /\ \A i \in DOMAIN summary.Pods :
           \A j \in DOMAIN summary.Pods[i].VolumeStats :
             LET pod == summary.Pods[i] IN
             HealthReported(ch[p], pod.VolumeStats[j],
               <<summary.Node.NodeName, pod.PodRef.Namespace, pod.PodRef.Name,
                 pod.VolumeStats[j].Name>>)
      /\ \A k \in DOMAIN ch[p] :
           ch[p][k].desc = s.podVolumeHealthStatus =>
             \E i \in DOMAIN summary.Pods :
               \E j \in DOMAIN summary.Pods[i].VolumeStats :
                 ch[p][k].labelValues =
                   <<summary.Node.NodeName, summary.Pods[i].PodRef.Namespace,
                     summary.Pods[i].PodRef.Name, summary.Pods[i].VolumeStats[j].Name>>

(***************************************************************************)
(* Termination.                                                            *)
(***************************************************************************)
\* the next step of the pull of p outside the walk, its return included
Proceed(p) ==
  \/ ReadToken(p)
  \/ ClientDo(p)
  \/ CheckStatus(p)
  \/ ReadBody(p)
  \/ IncLoad(p)
  \/ IncStore(p)
  \/ SendError(p)
  \/ Parse(p)
  \/ Return(p)

\* the guard of Map: the walk of the pull of p can start
CanMap(p) == process = "running" /\ call[p].pc = "Mapping"

\* the pull of p ended the process at the token read
HitTokenFailure(p) == process = "exited" /\ call[p].pc = "ReadToken"

\* C24: a pull under way that did not hit the fatal token-read failure can
\* always take its next step, up to and including its return to Idle: the
\* fetch answers, the output is drained, and no pull is left at a position
\* from which it never returns.
C24_EveryPullCanReturn ==
  \A p \in Procs :
    (call[p].pc # "Idle" /\ ~HitTokenFailure(p)) =>
      (CanMap(p) \/ ENABLED Proceed(p))

(***************************************************************************)
(* The response.                                                           *)
(***************************************************************************)
\* C25: a pull that has ended after client.Do gave it a response has closed
\* the body of that response, whatever the status of the response and
\* whatever the path the pull ended on.
C25_EveryResponseIsClosed ==
  \A p \in Procs :
    (call[p].pc \in {"Done", "Panicked"} /\ call[p].resp # <<>>) =>
      call[p].closed

(***************************************************************************)
(* The descriptors and the walk.                                           *)
(***************************************************************************)
\* the descriptors under which the walk of one of the documents, ending
\* without a panic, sends an observation
Producible ==
  UNION {LET m == MapSummary(NewScraper, decodeSummary(doc))
         IN IF m.panic THEN {} ELSE {x.desc : x \in Range(m.sent)}
         : doc \in Docs}

\* C26: every descriptor that Describe has sent, the error counter's aside,
\* is one under which the walk of some document sends an observation on a
\* pull that returns.
C26_EveryDescribedDescriptorIsProducible ==
  \A d \in Range(described) \ {s.errors} : d \in Producible

(***************************************************************************)
(* One counter for all classes.                                            *)
(***************************************************************************)
\* the failures counted so far, of every class
CountedFailures ==
  counted["request error"] + counted["status error"]
    + counted["read body error"] + counted["parse body error"]

\* the positions of the error-counter observations of a pull
ErrorObservations(metrics) == {i \in DOMAIN metrics : metrics[i].desc = s.errors}

\* C27: no pull sends the error counter more than once, and the value a
\* returned pull has sent it with, whatever the class of its label, is the
\* one stored counter: the number of failures counted so far over all
\* classes together.
C27_OneCounterForAllClasses ==
  \A p \in Procs :
    /\ Cardinality(ErrorObservations(ch[p])) <= 1
    /\ call[p].pc = "Done" =>
         \A i \in ErrorObservations(ch[p]) :
           /\ ch[p][i].labelValues = <<call[p].cause>>
           /\ ch[p][i].value = errCnt
           /\ ch[p][i].value = CountedFailures

\* a pull labelled "status error" has sent 2 where one failure of that class
\* and one "request error" were counted
C27_Witness ==
  \E p \in Procs :
    /\ call[p].pc = "Done"
    /\ call[p].cause = "status error"
    /\ counted["status error"] = 1
    /\ counted["request error"] = 1
    /\ \E i \in ErrorObservations(ch[p]) : ch[p][i].value = 2

====
